---- MODULE Spec2Model ----
(***************************************************************************)
(* Model of the agent core of agents/shared/base_agent.py: the @tool       *)
(* wrapper with its action log, tool discovery, the bridge to the external *)
(* agent framework and the copy-on-write AgentState of UniversalAgent,     *)
(* together with concrete agent variants (ComplianceOfficerAgent,          *)
(* ReleaseManagerAgent, FrontendDeveloperAgent with its async tool,        *)
(* DocumentationAgent with its log summarizer).                            *)
(*                                                                         *)
(* Python text is modelled as a sequence of one-character strings, so that *)
(* repr(), str() and the [:120] slice are computed and not assumed.        *)
(***************************************************************************)
EXTENDS Integers, Sequences, FiniteSets, TLC

(***************************************************************************)
(* Bounds of the model.                                                    *)
(***************************************************************************)
MaxCalls == 2      \* tool invocations started in one behaviour
MaxClock == 1      \* the largest reading of datetime.utcnow()
MaxOps == 3        \* state operations (update_state, get_state, mutations)
LongLen == 125     \* length of the long text argument (longer than the slice)

(***************************************************************************)
(* Python values: None, str and dict.  Every value has the same three      *)
(* fields so that values of different types can be compared.               *)
(***************************************************************************)
PyNone == [type |-> "NoneType", s |-> <<>>, items |-> <<>>]

PyStr(s) == [type |-> "str", s |-> s, items |-> <<>>]

PyDict(items) == [type |-> "dict", s |-> <<>>, items |-> items]

Item(k, v) == [k |-> k, v |-> v]

\* a list: its elements are the items' values, the keys are empty
PyList(vs) ==
    [type |-> "list", s |-> <<>>, items |-> [i \in 1..Len(vs) |-> Item(<<>>, vs[i])]]

\* the coroutine object that calling an async function returns: it holds
\* the bound argument and has not run any of the body
PyCoroutine(arg) == [type |-> "coroutine", s |-> <<>>, items |-> <<Item(<<>>, arg)>>]

\* type(v).__name__
TypeName(v) == v.type

\* dict.get(key, default) on a value that is a dict
RECURSIVE LookupFrom(_, _, _, _)
LookupFrom(items, i, key, default) ==
    IF i > Len(items) THEN default
    ELSE IF items[i].k = key THEN items[i].v
    ELSE LookupFrom(items, i + 1, key, default)

DictGet(d, key, default) == LookupFrom(d.items, 1, key, default)

\* text constants
S_name == <<"n", "a", "m", "e">>
S_artifact == <<"a", "r", "t", "i", "f", "a", "c", "t">>
S_status == <<"s", "t", "a", "t", "u", "s">>
S_compliant == <<"c", "o", "m", "p", "l", "i", "a", "n", "t">>
S_released == <<"r", "e", "l", "e", "a", "s", "e", "d">>
S_plan == <<"p", "l", "a", "n">>
S_version == <<"v", "e", "r", "s", "i", "o", "n">>
S_None == <<"N", "o", "n", "e">>
S_components == <<"c", "o", "m", "p", "o", "n", "e", "n", "t", "s">>
S_feature == <<"f", "e", "a", "t", "u", "r", "e">>
S_A == <<"A">>
S_B == <<"B">>
S_Long == [i \in 1..LongLen |-> "x"]

\* iter(v): the elements of a list, the keys of a dict, the characters of a
\* str
Elements(v) ==
    CASE v.type = "list" -> [i \in 1..Len(v.items) |-> v.items[i].v]
      [] v.type = "dict" -> [i \in 1..Len(v.items) |-> PyStr(v.items[i].k)]
      [] v.type = "str" -> [i \in 1..Len(v.s) |-> PyStr(<<v.s[i]>>)]

\* repr(v) of the builtin types, and str(args) of the positional tuple
RECURSIVE Repr(_)
RECURSIVE ReprSeq(_, _)
RECURSIVE ReprItems(_, _)
ReprItems(items, i) ==
    IF i > Len(items) THEN <<>>
    ELSE (IF i > 1 THEN <<",", " ">> ELSE <<>>)
         \o <<"'">> \o items[i].k \o <<"'", ":", " ">> \o Repr(items[i].v)
         \o ReprItems(items, i + 1)

Repr(v) ==
    CASE v.type = "NoneType" -> S_None
      [] v.type = "str" -> <<"'">> \o v.s \o <<"'">>
      [] v.type = "dict" -> <<"{">> \o ReprItems(v.items, 1) \o <<"}">>
      [] v.type = "list" -> <<"[">> \o ReprSeq(Elements(v), 1) \o <<"]">>
      [] v.type = "int" -> v.s

ReprSeq(args, i) ==
    IF i > Len(args) THEN <<>>
    ELSE (IF i > 1 THEN <<",", " ">> ELSE <<>>) \o Repr(args[i])
         \o ReprSeq(args, i + 1)

StrTuple(args) ==
    <<"(">> \o ReprSeq(args, 1) \o (IF Len(args) = 1 THEN <<",">> ELSE <<>>)
    \o <<")">>


(***************************************************************************)
(* The agents of the model: one instance of each of two variants, built    *)
(* with the defaults of the variant's constructor.                         *)
(***************************************************************************)
Agents == {"co", "rm"}

Callers == {"c1", "c2"}

ComplianceOfficerAgent ==
    [agent_id |-> "compliance-officer-001",
     role |-> "Regulatory compliance and governance",
     model |-> "openai/o3"]

ReleaseManagerAgent ==
    [agent_id |-> "release-manager-001",
     role |-> "Deployment coordination and release management",
     model |-> "anthropic/claude-4-sonnet"]

DocumentationAgent ==
    [agent_id |-> "documentation-agent-001",
     role |-> "Generate documentation for agents and their tools",
     model |-> "openai/gpt-5-chat"]

FrontendDeveloperAgent ==
    [agent_id |-> "frontend-dev-001",
     role |-> "Client-side application development",
     model |-> "openai/codex"]

DecisionMakerAgent ==
    [agent_id |-> "decision-maker-001",
     role |-> "Central coordination and autonomous decision-making",
     model |-> "openai/gpt-5-chat"]

GoogleCloudAPIDocumentationAgent ==
    [agent_id |-> "gcp-api-docs-agent-001",
     role |-> "Document Google Cloud APIs and tools for agents",
     model |-> "claude-sonnet-4"]

\* a UniversalAgent built directly: the base class declares no tool
PlainAgent == [agent_id |-> "agent-001", role |-> "general", model |-> "openai/o3"]

\* further instances, used where tool discovery and the async tool matter:
\* a DocumentationAgent, a FrontendDeveloperAgent, a DecisionMakerAgent, a
\* GoogleCloudAPIDocumentationAgent and a plain UniversalAgent
AllAgents == Agents \cup {"doc", "fd", "dm", "gcp", "ua"}

Defaults(h) ==
    CASE h = "co" -> ComplianceOfficerAgent
      [] h = "rm" -> ReleaseManagerAgent
      [] h = "doc" -> DocumentationAgent
      [] h = "fd" -> FrontendDeveloperAgent
      [] h = "dm" -> DecisionMakerAgent
      [] h = "gcp" -> GoogleCloudAPIDocumentationAgent
      [] OTHER -> PlainAgent

\* what UniversalAgent gives every instance: the attributes set by __init__
\* and the methods of the class ("__init__" stands for the
\* underscore-prefixed names)
BaseAttrs ==
    {"__init__", "agent_id", "role", "model", "state", "logger", "tool_methods",
     "send_message", "update_state", "get_state", "as_adk_agent"}

\* the names a variant's __init__ and class body declare, in the order of the
\* source
Declared(h) ==
    CASE h = "co" -> <<"check_compliance">>
      [] h = "rm" -> <<"manage_release">>
      [] h = "doc" -> <<"generate_agents_overview", "summarize_action_logs",
                        "get_gcp_api_documentation_info",
                        "generate_comprehensive_overview">>
      [] h = "fd" -> <<"develop_feature", "generate_components", "implement_logic",
                       "generate_tests", "optimize_performance",
                       "validate_accessibility">>
      [] h = "dm" -> <<"autonomy_level", "criteria_weights", "make_decision",
                       "evaluate_options", "get_decision_complexity",
                       "escalate_to_user", "select_best_option", "log_decision">>
      [] h = "gcp" -> <<"generate_gcp_api_documentation", "generate_api_usage_examples",
                        "create_agent_integration_guide">>
      [] OTHER -> <<>>

Attrs(h) == BaseAttrs \cup {Declared(h)[i] : i \in 1..Len(Declared(h))}

\* every attribute name of the model, in the order of Python's string
\* comparison
SortedNames ==
    <<"__init__", "agent_id", "as_adk_agent", "autonomy_level", "check_compliance",
      "create_agent_integration_guide", "criteria_weights", "develop_feature",
      "escalate_to_user", "evaluate_options", "generate_agents_overview",
      "generate_api_usage_examples", "generate_components",
      "generate_comprehensive_overview", "generate_gcp_api_documentation",
      "generate_tests",
      "get_decision_complexity", "get_gcp_api_documentation_info", "get_state",
      "implement_logic", "log_decision", "logger", "make_decision",
      "manage_release", "model", "optimize_performance", "role",
      "select_best_option", "send_message", "state", "summarize_action_logs",
      "tool_methods", "update_state", "validate_accessibility">>

RECURSIVE Keep(_, _, _)
Keep(names, i, S) ==
    IF i > Len(names) THEN <<>>
    ELSE (IF names[i] \in S THEN <<names[i]>> ELSE <<>>) \o Keep(names, i + 1, S)

\* a listing in the order of definition: the underscore names and the
\* attributes of the base class, then the variant's own methods
Dir_declared(h) ==
    <<"__init__", "agent_id", "role", "model", "state", "logger", "tool_methods",
      "send_message", "update_state", "get_state", "as_adk_agent">> \o Declared(h)

\* dir(agent): the attribute names of the instance and its classes, sorted
Dir(h) == Keep(SortedNames, 1, Attrs(h))

IsCallable(attr) ==
    attr \notin {"agent_id", "role", "model", "state", "logger", "autonomy_level",
                 "criteria_weights"}

\* a lookup of the flag whose default is True
IsTool_default(attr) == TRUE

\* getattr(candidate, "__is_tool__", False): set by the decorator on the wrapper
IsTool(attr) ==
    attr \in {"check_compliance", "manage_release", "develop_feature", "make_decision",
              "generate_agents_overview", "summarize_action_logs",
              "get_gcp_api_documentation_info", "generate_comprehensive_overview",
              "generate_gcp_api_documentation", "generate_api_usage_examples",
              "create_agent_integration_guide"}

StartsWithUnderscore(attr) == attr \in {"__init__"}

RECURSIVE CollectFrom(_, _)
CollectFrom(names, i) ==
    IF i > Len(names) THEN <<>>
    ELSE IF StartsWithUnderscore(names[i]) THEN CollectFrom(names, i + 1)
    ELSE IF IsCallable(names[i]) /\ IsTool(names[i])
         THEN <<names[i]>> \o CollectFrom(names, i + 1)
    ELSE CollectFrom(names, i + 1)

tool_methods(h) == CollectFrom(Dir(h), 1)

(***************************************************************************)
(* The domain functions of the tools.  An outcome is either a returned     *)
(* value or a raised exception.                                            *)
(***************************************************************************)
Returned(v) == [raised |-> FALSE, val |-> v, exc |-> "none"]

Raised(e) == [raised |-> TRUE, val |-> PyNone, exc |-> e]

\* the parameters after self
Params(name) ==
    CASE name = "check_compliance" -> <<"artifact">>
      [] name = "develop_feature" -> <<"specification">>
      [] name = "make_decision" -> <<"context", "options", "constraints">>
      [] OTHER -> <<"release_plan">>

EmptyKw == [k \in {} |-> PyNone]

ParamNames(name) == {Params(name)[i] : i \in 1..Len(Params(name))}

\* Python's binding of the call's arguments to the parameters
BindFails(name, args, kwargs) ==
    \/ Len(args) > Len(Params(name))
    \/ \E k \in DOMAIN kwargs : k \notin ParamNames(name)
    \/ \E i \in 1..Len(Params(name)) :
          \/ i <= Len(args) /\ Params(name)[i] \in DOMAIN kwargs
          \/ i > Len(args) /\ Params(name)[i] \notin DOMAIN kwargs

Bound(name, args, kwargs, i) ==
    IF i <= Len(args) THEN args[i] ELSE kwargs[Params(name)[i]]

check_compliance(artifact) ==
    IF artifact.type # "dict" THEN Raised("AttributeError")
    ELSE Returned(PyDict(<<Item(S_status, PyStr(S_compliant)),
                           Item(S_artifact, DictGet(artifact, S_name, PyStr(S_artifact)))>>))

manage_release(release_plan) ==
    IF release_plan.type # "dict" THEN Raised("AttributeError")
    ELSE Returned(PyDict(<<Item(S_status, PyStr(S_released)),
                           Item(S_plan, release_plan)>>))

\* str(v) inside an f-string
Str(v) == IF v.type = "str" THEN v.s ELSE Repr(v)

\* str(n) of a natural number
RECURSIVE Decimal(_)
Decimal(n) ==
    IF n < 10 THEN <<(<<"0", "1", "2", "3", "4", "5", "6", "7", "8", "9">>)[n + 1]>>
    ELSE Decimal(n \div 10) \o Decimal(n % 10)

\* generate_components: one scaffold per element of specification["components"]
Component(part) ==
    PyStr(<<"<", "d", "i", "v", " ", "c", "l", "a", "s", "s", "=", "'">> \o Str(part)
          \o <<"'", ">", "C", "o", "m", "p", "o", "n", "e", "n", "t", " ", "f", "o", "r", " ">>
          \o Str(part) \o <<"<", "/", "d", "i", "v", ">">>)

generate_components(specification) ==
    LET parts == DictGet(specification, S_components,
                         PyList(<<PyStr(<<"W", "i", "d", "g", "e", "t">>)>>))
    IN IF parts.type \notin {"list", "dict", "str"} THEN Raised("TypeError")
       ELSE Returned(PyList([i \in 1..Len(Elements(parts)) |->
                                Component(Elements(parts)[i])]))

implement_logic(components, specification) ==
    PyDict(<<Item(S_components, components),
             Item(<<"l", "o", "g", "i", "c">>,
                  PyStr(<<"L", "o", "g", "i", "c", " ", "f", "o", "r", " ">>
                        \o Str(DictGet(specification, S_feature, PyStr(S_feature)))))>>)

generate_tests(implementation) ==
    PyList([idx \in 1..Len(Elements(DictGet(implementation, S_components, PyNone))) |->
               PyStr(<<"i", "t", "(", "'", "r", "e", "n", "d", "e", "r", "s", " ">>
                     \o Decimal(idx) \o <<"'", ")">>)])

\* the body of the async tool, run when its coroutine is awaited
develop_feature(specification) ==
    IF specification.type # "dict" THEN Raised("AttributeError")
    ELSE LET components == generate_components(specification)
         IN IF components.raised THEN components
            ELSE LET implementation == implement_logic(components.val, specification)
                 IN Returned(PyDict(
                        <<Item(<<"i", "m", "p", "l", "e", "m", "e", "n", "t",
                                 "a", "t", "i", "o", "n">>, implementation),
                          Item(<<"t", "e", "s", "t", "s">>,
                               generate_tests(implementation))>>))

(***************************************************************************)
(* DecisionMakerAgent (decision_maker.py).  A number is a value whose text *)
(* is its decimal digits; a float is counted in hundredths, which is exact *)
(* for the scores the code starts from (0.8, 0.2, 0.15) and keeps the      *)
(* order of the weighted sums.                                             *)
(***************************************************************************)
Min(a, b) == IF a < b THEN a ELSE b

PyNum(type, n) == [type |-> type, s |-> Decimal(n), items |-> <<>>]

\* the number that a value's digits denote
RECURSIVE IntOf(_)
IntOf(s) ==
    IF Len(s) = 0 THEN 0
    ELSE 10 * IntOf(SubSeq(s, 1, Len(s) - 1))
         + (CHOOSE d \in 0..9 : Decimal(d) = <<s[Len(s)]>>)

\* self.autonomy_level, line 19
autonomy_level == 7

\* self.criteria_weights, lines 20-26, in hundredths
criteria_weights ==
    <<Item(<<"c", "o", "s", "t">>, 20), Item(<<"t", "i", "m", "e">>, 20),
      Item(<<"q", "u", "a", "l", "i", "t", "y">>, 25), Item(<<"r", "i", "s", "k">>, 20),
      Item(<<"m", "a", "i", "n", "t", "a", "i", "n", "a", "b", "i", "l", "i", "t", "y">>, 15)>>

\* d[key] = v
DictSet(items, key, v) ==
    IF \E i \in 1..Len(items) : items[i].k = key
    THEN [i \in 1..Len(items) |-> IF items[i].k = key THEN Item(key, v) ELSE items[i]]
    ELSE Append(items, Item(key, v))

\* lines 48-62: every option gets the same scores, 0.8 for each criterion,
\* less 0.2 for cost under a tight budget and less 0.15 for time under an
\* aggressive deadline
RECURSIVE evaluate_options(_, _, _, _)
evaluate_options(options, constraints, i, scores) ==
    IF options.type # "list" THEN Raised("TypeError")
    ELSE IF i > Len(options.items) THEN Returned(PyDict(scores))
    ELSE IF constraints.type # "dict" THEN Raised("AttributeError")
    ELSE LET cut(c) ==
                 CASE c = <<"c", "o", "s", "t">>
                      /\ DictGet(constraints, <<"b", "u", "d", "g", "e", "t">>, PyNone)
                             = PyStr(<<"t", "i", "g", "h", "t">>) -> 20
                   [] c = <<"t", "i", "m", "e">>
                      /\ DictGet(constraints, <<"d", "e", "a", "d", "l", "i", "n", "e">>, PyNone)
                             = PyStr(<<"a", "g", "g", "r", "e", "s", "s", "i", "v", "e">>) -> 15
                   [] OTHER -> 0
             base_scores ==
                 PyDict([j \in 1..Len(criteria_weights) |->
                            Item(criteria_weights[j].k,
                                 PyNum("float", 80 - cut(criteria_weights[j].k)))])
         IN evaluate_options(options, constraints, i + 1,
                             DictSet(scores, options.items[i].v.s, base_scores))

\* a reading of the context that finds every decision simple
get_decision_complexity_flat(context) == Returned(PyNum("int", 5))

\* lines 64-71
get_decision_complexity(context) ==
    IF context.type # "dict" THEN Raised("AttributeError")
    ELSE LET stakeholders == DictGet(context, <<"s", "t", "a", "k", "e", "h", "o", "l", "d", "e", "r", "s">>, PyNum("int", 1))
             risk == DictGet(context, <<"r", "i", "s", "k", "_", "p", "r", "o", "f", "i", "l", "e">>, PyNone)
         IN IF stakeholders.type # "int" THEN Raised("TypeError")
            ELSE Returned(PyNum("int",
                     Min(5 + (IF IntOf(stakeholders.s) > 5 THEN 2 ELSE 0)
                           + (IF risk = PyStr(<<"h", "i", "g", "h">>) THEN 2 ELSE 0), 10)))

\* lines 73-77
escalate_to_user(context, options, scores) ==
    PyDict(<<Item(<<"a", "c", "t", "i", "o", "n">>, PyStr(<<"e", "s", "c", "a", "l", "a", "t", "e">>)),
             Item(<<"c", "o", "n", "t", "e", "x", "t">>, context),
             Item(<<"o", "p", "t", "i", "o", "n", "s">>, options),
             Item(<<"s", "c", "o", "r", "e", "s">>, scores)>>)

\* sum(criterion_scores[c] * w for c, w in self.criteria_weights.items())
RECURSIVE Weighted(_, _)
Weighted(criterion_scores, j) ==
    IF j > Len(criteria_weights) THEN 0
    ELSE IntOf(DictGet(criterion_scores, criteria_weights[j].k, PyNone).s)
            * criteria_weights[j].v
         + Weighted(criterion_scores, j + 1)

\* the loop of lines 82-87 from the i-th entry on; best is None until an
\* entry has been taken, which the first always is (its sum exceeds -inf)
RECURSIVE BestFrom(_, _, _, _)
BestFrom(items, i, best, best_score) ==
    IF i > Len(items) THEN best
    ELSE IF best = PyNone \/ Weighted(items[i].v, 1) > best_score
         THEN BestFrom(items, i + 1, PyStr(items[i].k), Weighted(items[i].v, 1))
         ELSE BestFrom(items, i + 1, best, best_score)

\* a selection without the assertion
select_best_option_unchecked(scores) == Returned(BestFrom(scores.items, 1, PyNone, 0))

\* lines 79-89
select_best_option(scores) ==
    LET best_option == BestFrom(scores.items, 1, PyNone, 0)
    IN IF best_option = PyNone THEN Raised("AssertionError") ELSE Returned(best_option)

\* lines 28-46; the scores are computed before the complexity is looked at
make_decision(context, options, constraints) ==
    LET scores == evaluate_options(options, constraints, 1, <<>>)
    IN IF scores.raised THEN scores
       ELSE LET complexity == get_decision_complexity(context)
            IN IF complexity.raised THEN complexity
               ELSE IF IntOf(complexity.val.s) > autonomy_level
                    THEN Returned(escalate_to_user(context, options, scores.val))
               ELSE LET decision == select_best_option(scores.val)
                    IN IF decision.raised THEN decision
                       ELSE Returned(PyDict(<<Item(<<"d", "e", "c", "i", "s", "i", "o", "n">>, decision.val),
                                              Item(<<"s", "c", "o", "r", "e", "s">>, scores.val)>>))

\* func(self, *args, **kwargs) for the undecorated function called name; an
\* async def binds its arguments and returns a coroutine
Func(name, args, kwargs) ==
    IF BindFails(name, args, kwargs) THEN Raised("TypeError")
    ELSE CASE name = "check_compliance" ->
                 check_compliance(Bound(name, args, kwargs, 1))
           [] name = "develop_feature" ->
                 Returned(PyCoroutine(Bound(name, args, kwargs, 1)))
           [] name = "make_decision" ->
                 make_decision(Bound(name, args, kwargs, 1), Bound(name, args, kwargs, 2),
                               Bound(name, args, kwargs, 3))
           [] OTHER -> manage_release(Bound(name, args, kwargs, 1))


(***************************************************************************)
(* State.                                                                  *)
(*   frame       per caller, the tool invocation it is inside or has just  *)
(*               left: the inputs, the wrapper's position and locals, and  *)
(*               what the caller has received                              *)
(*   log         the content of agents/AGENT_ACTIONS.md, one element per   *)
(*               write                                                     *)
(*   dirExists, fileExists   the log's directory and file                  *)
(*   clock       the last reading of datetime.utcnow()                     *)
(*   nstarted    invocations started                                       *)
(*   nreturned   per agent and tool, invocations that have returned        *)
(*   nfailed     appends that have failed                                  *)
(*   agents      the attributes of each agent object                       *)
(*   heap        the AgentState objects and the containers they refer to   *)
(*   held        references the callers hold: captured states, snapshots   *)
(*   last        the last state operation and its return value             *)
(*   nops        state operations performed                                *)
(*   listed      per agent, the results of its tool_methods() calls        *)
(*   adk         the last as_adk_agent call and what it gave               *)
(*   summary     a log file given to summarize_action_logs and the result  *)
(*   sent        the last send_message call and the Message it returned    *)
(*   upd         per caller, its update_state call when taken step by step *)
(*   inner       the tool calls made from inside a running tool            *)
(*   written     who wrote each line of the file given to the summariser   *)
(*   collected   per agent, the result of collect_tools(agent) when called *)
(*   docs        the paths of the documentation files written              *)
(***************************************************************************)
VARIABLES frame, log, dirExists, fileExists, clock, nstarted, nreturned, nfailed,
          agents, heap, held, last, nops, listed, adk, summary,
          sent, upd, inner, written, collected, docs

toolVars == <<frame, log, dirExists, fileExists, clock, nstarted, nreturned, nfailed>>

stateVars == <<agents, heap, held, last, nops>>

moreVars == <<sent, upd, inner, written, collected, docs>>

auxVars == <<listed, adk, summary, sent, upd, inner, written, collected, docs>>

vars == <<frame, log, dirExists, fileExists, clock, nstarted, nreturned, nfailed,
          agents, heap, held, last, nops, listed, adk, summary,
          sent, upd, inner, written, collected, docs>>

(***************************************************************************)
(* The wrapper of the tool decorator (base_agent.py, lines 89-104).        *)
(***************************************************************************)
ArgsLimit == 120

\* the rendering without the slice
ArgsSummary_whole(args) == StrTuple(args)

\* str(args)[:120]
ArgsSummary(args) == SubSeq(StrTuple(args), 1, Min(ArgsLimit, Len(StrTuple(args))))

\* a summary that renders the values instead of their types
KwargsSummary_values(kwargs) == [k \in DOMAIN kwargs |-> Repr(kwargs[k])]

\* {k: type(v).__name__ for k, v in kwargs.items()}
KwargsSummary(kwargs) == [k \in DOMAIN kwargs |-> TypeName(kwargs[k])]

\* a wrapper that logs its own name instead of func.__name__
FuncName_wrapper(name) == "wrapper"

\* func.__name__ of the decorated function
FuncName(name) == name

\* the text written for one invocation.  complete is FALSE for a fragment
\* left by a write that failed midway; src is not part of the text: it
\* remembers the arguments of the invocation that wrote the line
LogLine(ts, agent_id, name, args, kwargs) ==
    [ts |-> ts, agent |-> agent_id, tool |-> FuncName(name),
     args |-> ArgsSummary(args), kwargs |-> KwargsSummary(kwargs),
     complete |-> TRUE,
     src |-> [agent |-> agent_id, name |-> name, args |-> args, kwargs |-> kwargs]]

\* the file opened with mode 'w' instead of 'a'
FileAppend_truncate(content, chunk) == <<chunk>>

\* open(log_path, 'a') followed by write
FileAppend(content, chunk) == Append(content, chunk)

\* the ways the append can fail: os.makedirs, open, or the write itself,
\* which leaves either nothing or a fragment of the line in the file
Faults == {"none", "makedirs", "open", "write_none", "write_partial"}

\* func called inside a try whose finally clause logs
AfterFunc_finally(outcome) == "log"

\* line 90 is outside the try: an exception of func leaves the wrapper at once
AfterFunc(outcome) == IF outcome.raised THEN "raised" ELSE "log"

\* a wrapper that opens the file without creating its directory
makedirs_skip(exists, fault) == exists

\* line 96: os.makedirs(os.path.dirname(log_path), exist_ok=True); the
\* directory exists afterwards unless the call failed
makedirs(exists, fault) == exists \/ fault # "makedirs"

\* line 97: open(log_path, 'a') creates the file when its directory exists
\* and neither makedirs nor open has failed
Opened(dir, fault) == dir /\ fault \notin {"makedirs", "open"}

\* the append without its except clauses
AfterAppend_unguarded(fault) == IF fault = "none" THEN "ret" ELSE "raised"

\* lines 100-101: every Exception of the append is swallowed
AfterAppend(fault) == "ret"

\* lines 100-101: "except Exception: pass" ends every exception of the
\* append, so none leaves the inner try
LeavesInnerTry(fault) == FALSE

\* lines 102-103: the outer handler, the only place that calls
\* self.logger.debug, runs for an exception that has left the inner try
DebugLogged(fault) == fault # "none" /\ LeavesInnerTry(fault)

\* a wrapper that forgets to return the result
WrapperResult_none(result) == PyNone

\* line 104: return result
WrapperResult(result) == result.val

NoDelivery == [kind |-> "none", val |-> PyNone, exc |-> "none"]

DeliverValue(v) == [kind |-> "value", val |-> v, exc |-> "none"]

DeliverExc(e) == [kind |-> "exc", val |-> PyNone, exc |-> e]

\* a caller outside any invocation.  nodir remembers that the log's
\* directory was absent when the invocation began, debugged that the wrapper
\* has called logger.debug, coro the progress of the coroutine an async tool
\* returned ("none" for a tool that is not async)
Idle ==
    [pc |-> "idle", agent |-> "co", tool |-> "", args |-> <<>>, kwargs |-> EmptyKw,
     via |-> "", result |-> Returned(PyNone), failed |-> FALSE, wrote |-> FALSE,
     delivered |-> NoDelivery, nodir |-> FALSE, debugged |-> FALSE, coro |-> "none"]

\* the arguments a caller passes to the tool called name
DictA == PyDict(<<Item(S_name, PyStr(S_A))>>)

DictB == PyDict(<<Item(S_name, PyStr(S_B))>>)

DictLong == PyDict(<<Item(S_version, PyStr(S_Long))>>)

Kw(name, v) == [k \in {Params(name)[1]} |-> v]

DictNav == PyDict(<<Item(S_components, PyList(<<PyStr(<<"N", "a", "v">>)>>))>>)

CallInputs(name) ==
    CASE name = "check_compliance" ->
             { [args |-> <<DictA>>, kwargs |-> EmptyKw],
               [args |-> <<PyNone>>, kwargs |-> EmptyKw],
               [args |-> <<>>, kwargs |-> Kw(name, DictA)],
               [args |-> <<>>, kwargs |-> Kw(name, DictB)] }
      [] name = "develop_feature" ->
             { [args |-> <<DictA>>, kwargs |-> EmptyKw],
               [args |-> <<PyNone>>, kwargs |-> EmptyKw],
               [args |-> <<>>, kwargs |-> Kw(name, DictNav)],
               [args |-> <<>>, kwargs |-> EmptyKw] }
      [] OTHER ->
             { [args |-> <<DictLong>>, kwargs |-> EmptyKw],
               [args |-> <<>>, kwargs |-> EmptyKw] }

Pairs == {<<"co", "check_compliance">>, <<"rm", "manage_release">>}

\* a caller invokes agent.name(*args, **kwargs), either on the attribute or
\* on the bound method found in agent.tool_methods(); the wrapper runs func
\* (line 90)
Invoke(c, h, name, in, via) ==
    /\ frame[c].pc = "idle"
    /\ nstarted < MaxCalls
    /\ IF via = "tool_methods"
       THEN \E k \in 1..Len(tool_methods(h)) : tool_methods(h)[k] = name
       ELSE \E i \in 1..Len(Dir(h)) : Dir(h)[i] = name /\ IsTool(name)
    /\ LET result == Func(name, in.args, in.kwargs)
           pc == AfterFunc(result)
       IN frame' = [frame EXCEPT ![c] =
                      [pc |-> pc, agent |-> h, tool |-> name, args |-> in.args,
                       kwargs |-> in.kwargs, via |-> via, result |-> result,
                       failed |-> FALSE, wrote |-> FALSE,
                       delivered |-> IF pc = "raised" THEN DeliverExc(result.exc)
                                     ELSE NoDelivery,
                       nodir |-> ~dirExists, debugged |-> FALSE,
                       coro |-> IF result.val.type = "coroutine" THEN "created"
                                ELSE "none"]]
    /\ nstarted' = nstarted + 1
    /\ UNCHANGED <<log, dirExists, fileExists, clock, nreturned, nfailed>>
    /\ UNCHANGED stateVars
    /\ UNCHANGED auxVars

\* lines 93-101: makedirs, open for append, write one line stamped with the
\* reading now of datetime.utcnow()
AppendAction(c, fault, now) ==
    /\ frame[c].pc = "log"
    /\ now >= clock
    /\ LET r == frame[c]
           line == LogLine(now, agents[r.agent].agent_id, r.tool, r.args, r.kwargs)
           pc == AfterAppend(fault)
           opened == Opened(makedirs(dirExists, fault), fault)
       IN /\ dirExists' = makedirs(dirExists, fault)
          /\ fileExists' = (fileExists \/ opened)
          /\ log' = CASE ~opened -> log
                      [] fault = "none" -> FileAppend(log, line)
                      [] fault = "write_partial" ->
                            FileAppend(log, [line EXCEPT !.complete = FALSE])
                      [] OTHER -> log
          /\ frame' = [frame EXCEPT ![c].pc = pc,
                          ![c].failed = (fault # "none"),
                          ![c].wrote = (opened /\ fault \in {"none", "write_partial"}),
                          ![c].debugged = DebugLogged(fault),
                          ![c].delivered = IF pc = "raised" THEN DeliverExc("OSError")
                                           ELSE NoDelivery]
          /\ nfailed' = IF fault = "none" THEN nfailed ELSE nfailed + 1
    /\ clock' = now
    /\ UNCHANGED <<nstarted, nreturned>>
    /\ UNCHANGED stateVars
    /\ UNCHANGED auxVars

\* line 104
Return(c) ==
    /\ frame[c].pc = "ret"
    /\ frame' = [frame EXCEPT ![c].pc = "returned",
                    ![c].delivered = DeliverValue(WrapperResult(frame[c].result))]
    /\ nreturned' = [nreturned EXCEPT ![<<frame[c].agent, frame[c].tool>>] = @ + 1]
    /\ UNCHANGED <<log, dirExists, fileExists, clock, nstarted, nfailed>>
    /\ UNCHANGED stateVars
    /\ UNCHANGED auxVars

\* the caller awaits the coroutine an async tool returned: only now does
\* the body of the tool run, and the caller gets its value or its exception
Await(c) ==
    /\ frame[c].pc = "returned"
    /\ frame[c].coro = "created"
    /\ LET outcome == develop_feature(frame[c].result.val.items[1].v)
       IN frame' = [frame EXCEPT ![c].coro = IF outcome.raised THEN "failed" ELSE "done",
                       ![c].delivered = IF outcome.raised THEN DeliverExc(outcome.exc)
                                        ELSE DeliverValue(outcome.val)]
    /\ UNCHANGED <<log, dirExists, fileExists, clock, nstarted, nreturned, nfailed>>
    /\ UNCHANGED stateVars
    /\ UNCHANGED auxVars

\* the caller has its value or its exception and goes on
Resume(c) ==
    /\ frame[c].pc \in {"returned", "raised"}
    /\ frame' = [frame EXCEPT ![c] = Idle]
    /\ UNCHANGED <<log, dirExists, fileExists, clock, nstarted, nreturned, nfailed>>
    /\ UNCHANGED stateVars
    /\ UNCHANGED auxVars

(***************************************************************************)
(* AgentState and the state operations of UniversalAgent (lines 60-65,     *)
(* 121-126 and 169-177).  Objects live in the heap and are named by their  *)
(* address, so that sharing between a state, its copies and its snapshots  *)
(* is visible.  A field value is a scalar or a reference to a container.   *)
(***************************************************************************)
Scalar(v) == [ref |-> 0, v |-> v]

Ref(a) == [ref |-> a, v |-> ""]

NoFields == [k \in {} |-> Scalar("")]

Cell(kind, f, l) == [kind |-> kind, f |-> f, l |-> l]

EmptyDict == Cell("dict", NoFields, <<>>)

EmptyList == Cell("list", NoFields, <<>>)

Status == {"active", "idle", "busy", "error", "maintenance"}

Fields == {"status", "current_task", "resource_utilization", "dependencies",
           "performance_metrics"}

\* AgentState(): the declared defaults; the three containers come from the
\* default factories and are placed at base+1 .. base+3
AgentState(base) ==
    Cell("AgentState",
         [k \in Fields |->
             CASE k = "status" -> Scalar("idle")
               [] k = "current_task" -> Scalar("None")
               [] k = "resource_utilization" -> Ref(base + 1)
               [] k = "dependencies" -> Ref(base + 2)
               [] k = "performance_metrics" -> Ref(base + 3)],
         <<>>)

DefaultCells(base) == <<AgentState(base), EmptyDict, EmptyList, EmptyDict>>

\* UniversalAgent.__init__ for the agent whose state object is placed at addr
NewAgent(h, addr) ==
    [agent_id |-> Defaults(h).agent_id, role |-> Defaults(h).role,
     model |-> Defaults(h).model, state |-> addr]

\* the value of an object with every reference followed
DeepField(hp, fv) ==
    IF fv.ref = 0 THEN [kind |-> "scalar", v |-> fv.v, f |-> NoFields, l |-> <<>>]
    ELSE [kind |-> hp[fv.ref].kind, v |-> "",
          f |-> [k \in DOMAIN hp[fv.ref].f |-> hp[fv.ref].f[k].v], l |-> hp[fv.ref].l]

DeepValue(hp, addr) == [k \in DOMAIN hp[addr].f |-> DeepField(hp, hp[addr].f[k])]

\* dict.update
DictUpdate(d, u) ==
    [k \in DOMAIN d \cup DOMAIN u |-> IF k \in DOMAIN u THEN u[k] ELSE d[k]]

\* a copy that drops the update
model_copy_noupdate(hp, addr, update) == Append(hp, hp[addr])

\* the entries assigned on the current object before it is copied
model_copy_inplace(hp, addr, update) ==
    Append([hp EXCEPT ![addr].f = DictUpdate(@, update)],
           [hp[addr] EXCEPT !.f = DictUpdate(@, update)])

\* BaseModel.model_copy(update=...) of the object at addr: a new object, a
\* shallow copy with the given entries assigned, not validated; the result
\* is the heap with the new object at its end
model_copy(hp, addr, update) ==
    Append(hp, [hp[addr] EXCEPT !.f = DictUpdate(@, update)])

\* the arguments of an update_state call: scalars, or containers the caller
\* builds for the call (new |-> the cells to allocate, at fresh+1 ..)
UpdateInputs(fresh) ==
    { [new |-> <<>>, kw |-> [k \in {"status", "current_task"} |->
                               IF k = "status" THEN Scalar("busy") ELSE Scalar("T1")]],
      [new |-> <<>>, kw |-> [k \in {"status"} |-> Scalar("bogus")]],
      [new |-> <<>>, kw |-> [k \in {"status"} |-> Scalar("error")]],
      [new |-> <<>>, kw |-> NoFields],
      [new |-> <<Cell("dict", [k \in {"cpu"} |-> Scalar("1")], <<>>)>>,
       kw |-> [k \in {"resource_utilization"} |-> Ref(fresh + 1)]],
      [new |-> <<Cell("list", NoFields, <<"dep">>)>>,
       kw |-> [k \in {"dependencies"} |-> Ref(fresh + 1)]] }

Before == [h \in Agents |-> DeepValue(heap, agents[h].state)]

\* update_state(**kwargs), lines 169-174.  The reader that held the state
\* before the call keeps its reference (held), with the value it saw.
update_state(h, in) ==
    /\ nops < MaxOps
    /\ LET old == agents[h].state
           updated == model_copy(heap \o in.new, old, in.kw)
       IN /\ heap' = updated
          /\ agents' = [agents EXCEPT ![h].state = Len(updated)]
          /\ held' = held \cup {[kind |-> "state", agent |-> h, addr |-> old,
                                 frozen |-> DeepValue(heap, old)]}
          /\ last' = [op |-> "update_state", agent |-> h, pre |-> old, kw |-> in.kw,
                      ret |-> agents'[h].state, before |-> Before]
    /\ nops' = nops + 1
    /\ UNCHANGED toolVars
    /\ UNCHANGED auxVars

\* BaseModel.model_dump(): a new mapping of the fields in which every
\* container is a new container with the same content.  The result is the
\* new objects, the mapping first, to be placed at base+1 ..
DumpOrder == <<"resource_utilization", "dependencies", "performance_metrics">>

DumpIndex(k) == CHOOSE i \in 1..Len(DumpOrder) : DumpOrder[i] = k

\* a dump that copies the mapping but not the containers in it
model_dump_shallow(hp, obj, base) == <<Cell("dict", obj.f, <<>>)>>

model_dump(hp, obj, base) ==
    <<Cell("dict",
           [k \in DOMAIN obj.f |->
               IF obj.f[k].ref = 0 THEN obj.f[k] ELSE Ref(base + 1 + DumpIndex(k))],
           <<>>)>>
    \o [i \in 1..Len(DumpOrder) |-> hp[obj.f[DumpOrder[i]].ref]]

\* get_state(), lines 176-177
get_state(h) ==
    /\ nops < MaxOps
    /\ heap' = heap \o model_dump(heap, heap[agents[h].state], Len(heap))
    /\ held' = held \cup {[kind |-> "snapshot", agent |-> h, addr |-> Len(heap) + 1,
                           frozen |-> DeepValue(heap, agents[h].state)]}
    /\ last' = [op |-> "get_state", agent |-> h, pre |-> agents[h].state,
                kw |-> NoFields, ret |-> Len(heap) + 1, before |-> Before]
    /\ nops' = nops + 1
    /\ UNCHANGED agents
    /\ UNCHANGED toolVars
    /\ UNCHANGED auxVars

\* the holder of a snapshot changes it: assigns an entry of the mapping, or
\* changes the container found under one of its keys
MutateSnapshot(x, k) ==
    /\ nops < MaxOps
    /\ x \in held
    /\ x.kind = "snapshot"
    /\ LET fv == heap[x.addr].f[k]
       IN heap' =
            IF fv.ref = 0
            THEN [heap EXCEPT ![x.addr].f[k] = Scalar("changed")]
            ELSE IF heap[fv.ref].kind = "list"
                 THEN [heap EXCEPT ![fv.ref].l = Append(@, "changed")]
                 ELSE [heap EXCEPT ![fv.ref].f = DictUpdate(@, [j \in {"changed"} |-> Scalar("1")])]
    /\ last' = [op |-> "mutate", agent |-> x.agent, pre |-> x.addr,
                kw |-> [j \in {k} |-> Scalar("changed")],
                ret |-> x.addr, before |-> Before]
    /\ nops' = nops + 1
    /\ UNCHANGED <<agents, held>>
    /\ UNCHANGED toolVars
    /\ UNCHANGED auxVars

(***************************************************************************)
(* Tool discovery and the bridge to the external framework                 *)
(* (base_agent.py, lines 128-137 and 179-206; adk_adapter.py).  A bound    *)
(* method is named by its attribute name.                                  *)
(***************************************************************************)
MaxListings == 2   \* tool_methods() calls on one agent

\* a caller evaluates agent.tool_methods() and keeps the list
CallToolMethods(h) ==
    /\ Len(listed[h]) < MaxListings
    /\ listed' = [listed EXCEPT ![h] = Append(@, tool_methods(h))]
    /\ UNCHANGED <<adk, summary>>
    /\ UNCHANGED moreVars
    /\ UNCHANGED toolVars
    /\ UNCHANGED stateVars

\* an optional argument: None, or a value
None == [none |-> TRUE, s |-> "", names |-> <<>>]

SomeStr(s) == [none |-> FALSE, s |-> s, names |-> <<>>]

SomeList(names) == [none |-> FALSE, s |-> "", names |-> names]

\* bool(x) of None, a str or a list
Truthy(x) == ~x.none /\ (x.s # "" \/ Len(x.names) > 0)

\* x or default, for a str
OrStr(x, default) == IF Truthy(x) THEN x.s ELSE default

\* a scan that keeps every public callable, flagged or not
collect_tools_callable(h) ==
    Keep(Dir(h), 1, {a \in Attrs(h) : IsCallable(a) /\ ~StartsWithUnderscore(a)})

\* adk_adapter.collect_tools(obj)
collect_tools(h) == CollectFrom(Dir(h), 1)

\* adk_adapter.ensure_tool_list(tools, obj)
ensure_tool_list(tools, h) == IF ~tools.none THEN tools.names ELSE collect_tools(h)

\* line 197: list(tools or self.tool_methods())
selected_tools(tools, h) == IF Truthy(tools) THEN tools.names ELSE tool_methods(h)

DefaultInstruction ==
    "You are a helpful agent in a multi-agent system. Use tools when helpful."

NoRequest == [name |-> "", model |-> "", description |-> "", instruction |-> "",
              tools |-> <<>>]

\* lines 198-205: the arguments given to the Agent constructor
AgentRequest(agent, h, in) ==
    [name |-> agent.agent_id, model |-> agent.model,
     description |-> OrStr(in.description, agent.role),
     instruction |-> OrStr(in.instruction, DefaultInstruction),
     tools |-> selected_tools(in.tools, h)]

\* an except clause that marks the agent before it re-raises
ImportFailure_marks(agent) == [agent EXCEPT !.model = "unavailable"]

\* lines 193-195: the handler logs and re-raises; it assigns nothing to self
ImportFailure(agent) == agent

AdkInputs ==
    [instruction : {None, SomeStr("Be brief.")},
     tools : {None, SomeList(<<>>), SomeList(<<"send_message">>)},
     description : {None, SomeStr("Checks")}]

NoAdk ==
    [op |-> "none", agent |-> "co", in |-> [instruction |-> None, tools |-> None,
                                            description |-> None],
     raised |-> FALSE, exc |-> "none", logged |-> "none", request |-> NoRequest,
     started |-> 0]

\* agent.as_adk_agent(instruction, tools, description); importable tells
\* whether "from google.adk.agents import Agent" succeeds.  started is the
\* number of tool invocations begun before this call
as_adk_agent(h, in, importable) ==
    /\ adk' = IF importable
              THEN [op |-> "as_adk_agent", agent |-> h, in |-> in, raised |-> FALSE,
                    exc |-> "none", logged |-> "none",
                    request |-> AgentRequest(agents[h], h, in), started |-> nstarted]
              ELSE [op |-> "as_adk_agent", agent |-> h, in |-> in, raised |-> TRUE,
                    exc |-> "ImportError", logged |-> "error", request |-> NoRequest,
                    started |-> nstarted]
    /\ agents' = [agents EXCEPT ![h] = IF importable THEN @ ELSE ImportFailure(@)]
    /\ UNCHANGED <<heap, held, last, nops>>
    /\ UNCHANGED <<listed, summary>>
    /\ UNCHANGED moreVars
    /\ UNCHANGED toolVars

(***************************************************************************)
(* DocumentationAgent.summarize_action_logs (documentation_agent.py, lines *)
(* 93-124), computed on text: a file is a sequence of lines, a line a      *)
(* sequence of characters.                                                 *)
(***************************************************************************)
MaxLines == 3      \* lines of the file given to the summarizer

Whitespace == {" ", "\t", "\n", "\r"}

RECURSIVE LStrip(_)
LStrip(s) == IF s # <<>> /\ Head(s) \in Whitespace THEN LStrip(Tail(s)) ELSE s

RECURSIVE RStrip(_)
RStrip(s) ==
    IF s # <<>> /\ s[Len(s)] \in Whitespace THEN RStrip(SubSeq(s, 1, Len(s) - 1)) ELSE s

\* str.strip()
Strip(s) == RStrip(LStrip(s))

\* the first index from i on at which ch stands in s, or 0
RECURSIVE Find(_, _, _)
Find(s, ch, i) ==
    IF i > Len(s) THEN 0 ELSE IF s[i] = ch THEN i ELSE Find(s, ch, i + 1)

\* s.split(sep, 1): one part when sep does not occur, else two
Split1(s, sep) ==
    IF Find(s, sep, 1) = 0 THEN <<s>>
    ELSE <<SubSeq(s, 1, Find(s, sep, 1) - 1), SubSeq(s, Find(s, sep, 1) + 1, Len(s))>>

\* lines 115-117: ok is FALSE where the code raises (IndexError for a line
\* without "|", ValueError for an agent part without ".")
ParseLine(line) ==
    IF Len(Split1(line, "|")) < 2 THEN [ok |-> FALSE, agent |-> <<>>, tool |-> <<>>]
    ELSE LET rhs == Strip(Split1(line, "|")[2])
             agent_tool == Strip(Split1(rhs, ":")[1])
         IN IF Len(Split1(agent_tool, ".")) < 2
            THEN [ok |-> FALSE, agent |-> <<>>, tool |-> <<>>]
            ELSE [ok |-> TRUE, agent |-> Split1(agent_tool, ".")[1],
                  tool |-> Split1(agent_tool, ".")[2]]

\* d[k] = d.get(k, 0) + 1
Bump(d, k) ==
    [x \in DOMAIN d \cup {k} |-> IF x = k THEN (IF k \in DOMAIN d THEN d[k] + 1 ELSE 1)
                                 ELSE d[x]]

\* lines 109-121: the body of the loop for one line of the file
CountLine(acc, raw) ==
    IF Strip(raw) = <<>> \/ Head(Strip(raw)) = "#" THEN acc
    ELSE IF ParseLine(Strip(raw)).ok
         THEN [total |-> acc.total + 1,
               by_agent |-> Bump(acc.by_agent, ParseLine(Strip(raw)).agent),
               by_tool |-> Bump(acc.by_tool, ParseLine(Strip(raw)).tool)]
         ELSE [acc EXCEPT !.total = @ + 1]

NoSummary == [total |-> 0, by_agent |-> [k \in {} |-> 0], by_tool |-> [k \in {} |-> 0]]

RECURSIVE CountLines(_, _, _)
CountLines(acc, lines, i) ==
    IF i > Len(lines) THEN acc ELSE CountLines(CountLine(acc, lines[i]), lines, i + 1)

\* the value summarize_action_logs returns for a file
Summarize(exists, lines) == IF ~exists THEN NoSummary ELSE CountLines(NoSummary, lines, 1)

\* lines a file may hold: two records as the wrapper writes them, a blank
\* line, a heading, a line without "|", a record whose agent part has no "."
SampleLines ==
    { <<"-", " ", "0", " ", "|", " ", "c", "o", ".", "c", "h", "e", "c", "k", ":", " ", "{", "}">>,
      <<"-", " ", "1", " ", "|", " ", "r", "m", ".", "s", "h", "i", "p", ":", " ", "{", "}">>,
      <<" ", " ">>,
      <<"#", " ", "l", "o", "g">>,
      <<"g", "a", "r", "b", "a", "g", "e">>,
      <<"-", " ", "0", " ", "|", " ", "c", "o", ":", " ", "{", "}">> }

NoFile == [exists |-> FALSE, file |-> <<>>, done |-> FALSE, read |-> <<>>,
           out |-> NoSummary]

\* something appends a line to the file (creating it)
WriteLine(l) ==
    /\ Len(summary.file) < MaxLines
    /\ summary' = [summary EXCEPT !.exists = TRUE, !.file = Append(@, l)]
    /\ UNCHANGED <<listed, adk>>
    /\ UNCHANGED moreVars
    /\ UNCHANGED toolVars
    /\ UNCHANGED stateVars

\* agent.summarize_action_logs(actions_file); read is the content the call saw
summarize_action_logs ==
    /\ summary' = [summary EXCEPT !.done = TRUE, !.read = summary.file,
                       !.out = Summarize(summary.exists, summary.file)]
    /\ UNCHANGED <<listed, adk>>
    /\ UNCHANGED moreVars
    /\ UNCHANGED toolVars
    /\ UNCHANGED stateVars

(***************************************************************************)
(* Messages (base_agent.py, lines 68-77 and 139-167).                      *)
(***************************************************************************)
\* the defaults of send_message's optional parameters, lines 144-146
send_message_defaults ==
    [priority |-> "medium", requires_response |-> "False", deadline |-> "None"]

\* the value a parameter is bound to: the argument when one was passed
Passed_default(in, name) == send_message_defaults[name]

Passed(in, name) ==
    IF name \in in.given THEN in[name] ELSE send_message_defaults[name]

\* Message(...), lines 147-157
Message(agent, in, id, now) ==
    [message_id |-> id,
     sender |-> agent.agent_id,
     recipient |-> in.recipient,
     message_type |-> in.message_type,
     priority |-> Passed(in, "priority"),
     payload |-> in.payload,
     timestamp |-> now,
     requires_response |-> Passed(in, "requires_response"),
     deadline |-> Passed(in, "deadline")]

\* the calls made: two message types, and optional arguments passed or not
MessageInputs ==
    { [recipient |-> "release-manager-001", message_type |-> t, payload |-> DictA,
       given |-> g, priority |-> "high", requires_response |-> "True",
       deadline |-> "2026-01-01"] :
      t \in {"request", "notification"},
      g \in { {}, {"priority"}, {"requires_response"}, {"priority", "deadline"} } }

NoMessage == [op |-> "none", agent |-> "co", in |-> CHOOSE in \in MessageInputs : TRUE,
              logged |-> "none", ret |-> Message(ComplianceOfficerAgent,
                                                 CHOOSE in \in MessageInputs : TRUE, "", 0)]

\* agent.send_message(...): the message is built, one record goes to the
\* agent's logger at level info, and the message is returned
send_message(h, in, id, now) ==
    /\ sent' = [op |-> "send_message", agent |-> h, in |-> in, logged |-> "info",
                ret |-> Message(agents[h], in, id, now)]
    /\ UNCHANGED <<upd, inner, written, collected, docs>>
    /\ UNCHANGED <<listed, adk, summary>>
    /\ UNCHANGED toolVars
    /\ UNCHANGED stateVars

(***************************************************************************)
(* update_state taken statement by statement (base_agent.py, lines         *)
(* 169-174), for callers that run on different threads.                    *)
(***************************************************************************)
NoUpdate == [pc |-> "idle", agent |-> "co", kw |-> NoFields, old |-> 0, updated |-> 0,
             alone |-> TRUE]

\* the keyword arguments of the calls
RaceInputs ==
    { [k \in {"status"} |-> Scalar("busy")],
      [k \in {"status"} |-> Scalar("error")],
      [k \in {"current_task"} |-> Scalar("t1")],
      [k \in {"current_task"} |-> Scalar("t2")] }

\* line 171, updated = self.state.model_copy(update=kwargs): the state is
\* read and copied.  alone records that no other call on the same agent was
\* between its line 171 and its line 172 at any time this one was.
UpdateCopy(c, h, kw) ==
    /\ upd[c].pc = "idle"
    /\ heap' = model_copy(heap, agents[h].state, kw)
    /\ upd' = [d \in Callers |->
                 IF d = c
                 THEN [pc |-> "copied", agent |-> h, kw |-> kw,
                       old |-> agents[h].state, updated |-> Len(heap'),
                       alone |-> \A e \in Callers \ {c} :
                                    ~(upd[e].pc = "copied" /\ upd[e].agent = h)]
                 ELSE IF upd[d].pc = "copied" /\ upd[d].agent = h
                      THEN [upd[d] EXCEPT !.alone = FALSE]
                      ELSE upd[d]]
    /\ UNCHANGED <<agents, held, last, nops>>
    /\ UNCHANGED <<listed, adk, summary, sent, inner, written, collected, docs>>
    /\ UNCHANGED toolVars

\* self.state = updated without the assignment
Replace_keep(agent, updated) == agent

\* an assignment that reaches the agent's role as well
Replace_role(agent, updated) == [agent EXCEPT !.state = updated, !.role = "updated"]

\* line 172, self.state = updated
Replace(agent, updated) == [agent EXCEPT !.state = updated]

\* lines 172-174: the reference is replaced and the new state returned
UpdateReplace(c) ==
    /\ upd[c].pc = "copied"
    /\ agents' = [agents EXCEPT ![upd[c].agent] = Replace(@, upd[c].updated)]
    /\ upd' = [upd EXCEPT ![c].pc = "done"]
    /\ UNCHANGED <<heap, held, last, nops>>
    /\ UNCHANGED <<listed, adk, summary, sent, inner, written, collected, docs>>
    /\ UNCHANGED toolVars

(***************************************************************************)
(* GoogleCloudAPIDocumentationAgent.generate_gcp_api_documentation         *)
(* (google_cloud_api_documentation_agent.py, lines 34-97 and 190-221).     *)
(* What the file system and the toolset module do is the environment env   *)
(* of a call: toolset is what loading the module and asking it for its     *)
(* tools gives, out is whether the output can be written.                  *)
(***************************************************************************)
\* os.path.dirname
Dirname(path) ==
    LET i == CHOOSE k \in 0..Len(path) :
                 /\ k > 0 => path[k] = "/"
                 /\ \A j \in (k + 1)..Len(path) : path[j] # "/"
        head == SubSeq(path, 1, i)
        RECURSIVE RStripSlash(_)
        RStripSlash(t) ==
            IF Len(t) > 0 /\ t[Len(t)] = "/" THEN RStripSlash(SubSeq(t, 1, Len(t) - 1))
            ELSE t
    IN IF \A j \in 1..Len(head) : head[j] = "/" THEN head ELSE RStripSlash(head)

\* sub in s
Contains(s, sub) ==
    \E i \in 1..(Len(s) - Len(sub) + 1) : SubSeq(s, i, i + Len(sub) - 1) = sub

\* lines 192-219: the categories in the order of the dict, each with the
\* words that put a tool in it; a tool goes to the first that fits
Categories ==
    <<[name |-> <<"B", "i", "g", "Q", "u", "e", "r", "y">>,
       pats |-> {<<"b", "i", "g", "q", "u", "e", "r", "y">>}],
      [name |-> <<"C", "l", "o", "u", "d", " ", "S", "t", "o", "r", "a", "g", "e">>,
       pats |-> {<<"s", "t", "o", "r", "a", "g", "e">>}],
      [name |-> <<"P", "u", "b", "/", "S", "u", "b">>,
       pats |-> {<<"p", "u", "b", "s", "u", "b">>}],
      [name |-> <<"V", "e", "r", "t", "e", "x", " ", "A", "I">>,
       pats |-> {<<"v", "e", "r", "t", "e", "x">>, <<"a", "i">>}],
      [name |-> <<"M", "o", "n", "i", "t", "o", "r", "i", "n", "g">>,
       pats |-> {<<"m", "o", "n", "i", "t", "o", "r">>, <<"m", "e", "t", "r", "i", "c", "s">>}],
      [name |-> <<"C", "o", "m", "p", "u", "t", "e">>,
       pats |-> {<<"c", "o", "m", "p", "u", "t", "e">>, <<"i", "n", "s", "t", "a", "n", "c", "e">>}],
      [name |-> <<"O", "t", "h", "e", "r">>,
       pats |-> {<<>>}]>>

\* _categorize_tools, for tools given by their lower-case names: the names of
\* the categories that are not empty
categorize_tools(tools) ==
    LET CategoryOf(tool) ==
            CHOOSE j \in 1..Len(Categories) :
                /\ \E pat \in Categories[j].pats : Contains(tool, pat)
                /\ \A k \in 1..(j - 1) :
                      \A pat \in Categories[k].pats : ~Contains(tool, pat)
        used == SelectSeq([j \in 1..Len(Categories) |-> j],
                          LAMBDA j : \E i \in 1..Len(tools) : CategoryOf(tools[i]) = j)
    IN [n \in 1..Len(used) |-> PyStr(Categories[used[n]].name)]

\* the environments of a call
GcpEnvs ==
    { [toolset |-> "ok", out |-> "ok",
       tools |-> <<<<"b", "i", "g", "q", "u", "e", "r", "y", "_", "q", "u", "e", "r", "y">>, <<"l", "i", "s", "t", "_", "b", "u", "c", "k", "e", "t", "s">>, <<"s", "t", "o", "r", "a", "g", "e", "_", "g", "e", "t">>>>],
      [toolset |-> "ok", out |-> "ok", tools |-> <<>>],
      [toolset |-> "ok", out |-> "PermissionError", tools |-> <<<<"t", "r", "a", "i", "n", "_", "a", "i">>>>],
      [toolset |-> "FileNotFoundError", out |-> "ok", tools |-> <<>>],
      [toolset |-> "AttributeError", out |-> "ok", tools |-> <<>>],
      [toolset |-> "SystemExit", out |-> "ok", tools |-> <<>>] }

\* the classes that `except Exception` catches
IsException_all(exc) == TRUE

IsException(exc) == exc \notin {"SystemExit", "KeyboardInterrupt", "GeneratorExit"}

\* the exception, if any, that the body of the try statement (lines 58-87)
\* meets: from loading the module and getting its tools, from makedirs on a
\* path without a directory part, or from opening the output
GcpFailure(output_path, env) ==
    IF env.toolset # "ok" THEN env.toolset
    ELSE IF output_path.type # "str" THEN "TypeError"
    ELSE IF Dirname(output_path.s) = <<>> THEN "FileNotFoundError"
    ELSE env.out

\* lines 34-97; include_examples changes only the text that is written, and
\* str(e) is the name of the class here
generate_gcp_api_documentation(toolset_module_path, output_path, env) ==
    LET failure == GcpFailure(output_path, env)
        categories == categorize_tools(env.tools)
    IN IF failure = "ok"
       THEN Returned(PyDict(
                <<Item(<<"w", "r", "i", "t", "t", "e", "n", "_", "t", "o">>, output_path),
                  Item(<<"a", "p", "i", "_", "c", "o", "u", "n", "t">>, PyNum("int", Len(categories))),
                  Item(<<"t", "o", "o", "l", "_", "c", "o", "u", "n", "t">>, PyNum("int", Len(env.tools))),
                  Item(<<"c", "a", "t", "e", "g", "o", "r", "i", "e", "s">>, PyList(categories))>>))
       ELSE IF IsException(failure)
       THEN Returned(PyDict(
                <<Item(<<"e", "r", "r", "o", "r">>, PyStr([i \in 1..1 |-> failure])),
                  Item(<<"w", "r", "i", "t", "t", "e", "n", "_", "t", "o">>, PyNone),
                  Item(<<"a", "p", "i", "_", "c", "o", "u", "n", "t">>, PyNum("int", 0)),
                  Item(<<"t", "o", "o", "l", "_", "c", "o", "u", "n", "t">>, PyNum("int", 0)),
                  Item(<<"c", "a", "t", "e", "g", "o", "r", "i", "e", "s">>, PyList(<<>>))>>))
       ELSE Raised(failure)

\* the arguments of the calls: an output path with and without a directory
GcpInputs ==
    { [args |-> <<PyStr(<<"t", ".", "p", "y">>), PyStr(<<"d", "o", "c", "s", "/", "g", ".", "m", "d">>)>>, kwargs |-> EmptyKw],
      [args |-> <<PyStr(<<"t", ".", "p", "y">>), PyStr(<<"g", ".", "m", "d">>)>>, kwargs |-> EmptyKw] }

\* a caller invokes agent.generate_gcp_api_documentation(...): the wrapper
\* runs func (line 90), which writes the output file when nothing fails
InvokeGcp(c, in, env) ==
    /\ frame[c].pc = "idle"
    /\ nstarted < MaxCalls
    /\ LET result == generate_gcp_api_documentation(in.args[1], in.args[2], env)
           pc == AfterFunc(result)
       IN /\ frame' = [frame EXCEPT ![c] =
                         [Idle EXCEPT !.pc = pc, !.agent = "gcp",
                                      !.tool = "generate_gcp_api_documentation",
                                      !.args = in.args, !.kwargs = in.kwargs,
                                      !.via = "direct", !.result = result,
                                      !.delivered = IF pc = "raised"
                                                    THEN DeliverExc(result.exc)
                                                    ELSE NoDelivery,
                                      !.nodir = ~dirExists]]
          /\ docs' = IF GcpFailure(in.args[2], env) = "ok"
                     THEN docs \cup {in.args[2].s} ELSE docs
    /\ nstarted' = nstarted + 1
    /\ UNCHANGED <<log, dirExists, fileExists, clock, nreturned, nfailed>>
    /\ UNCHANGED stateVars
    /\ UNCHANGED <<listed, adk, summary, sent, upd, inner, written, collected>>

(***************************************************************************)
(* DocumentationAgent.generate_comprehensive_overview                      *)
(* (documentation_agent.py, lines 191-312), a tool whose body calls two    *)
(* other tools of the agent through their wrappers.  The invocation made   *)
(* from outside runs in the frame of caller c1; an invocation made by the  *)
(* body runs in the frame of c2, whose caller is that body.  inner is the  *)
(* position of the body: at is 0 when it is not running, 1 and 2 when it   *)
(* is at the first and second call, 3 when it is about to write the index; *)
(* results is what the calls returned.                                     *)
(***************************************************************************)
NotRunning == [at |-> 0, results |-> <<>>]

\* os.path.join of two parts
PathJoin(a, b) ==
    IF Len(b) > 0 /\ b[1] = "/" THEN b
    ELSE IF Len(a) = 0 \/ a[Len(a)] = "/" THEN a \o b
    ELSE a \o <<"/">> \o b

\* lines 203-207 and 210: the tool and the arguments of the k-th call; the
\* project root is written "."
InnerCall(k, base_output_dir) ==
    IF k = 1
    THEN [tool |-> "generate_agents_overview",
          args |-> <<PyStr(PathJoin(PathJoin(<<".">>, <<"u", "n", "i", "v", "e", "r", "s", "a", "l", "_", "a", "g", "e", "n", "t", "_", "a", "r", "c", "h", "i", "t", "e", "c", "t", "u", "r", "e">>),
                                    <<"a", "g", "e", "n", "t", "s">>)),
                     PyStr(PathJoin(base_output_dir.s, <<"a", "g", "e", "n", "t", "s", "_", "o", "v", "e", "r", "v", "i", "e", "w", ".", "m", "d">>))>>]
    ELSE [tool |-> "get_gcp_api_documentation_info", args |-> <<>>]

\* what the file system gives a call: for generate_agents_overview the
\* number of agent modules listed, or the exception of os.listdir or of
\* writing the overview; for get_gcp_api_documentation_info the number of
\* documentation files, none when the directory is absent, or the exception
\* of os.listdir; for the index, whether it can be written
InnerEnvs(k) ==
    IF k = 1
    THEN { [exc |-> "none", found |-> TRUE, n |-> 0], [exc |-> "none", found |-> TRUE, n |-> 2],
           [exc |-> "FileNotFoundError", found |-> FALSE, n |-> 0],
           [exc |-> "PermissionError", found |-> TRUE, n |-> 2] }
    ELSE { [exc |-> "none", found |-> FALSE, n |-> 0], [exc |-> "none", found |-> TRUE, n |-> 1],
           [exc |-> "PermissionError", found |-> TRUE, n |-> 0] }

\* lines 24-91
generate_agents_overview(agents_dir, output_path, env) ==
    IF env.exc # "none" THEN Raised(env.exc)
    ELSE Returned(PyDict(<<Item(<<"w", "r", "i", "t", "t", "e", "n", "_", "t", "o">>, output_path),
                           Item(<<"c", "o", "u", "n", "t">>, PyNum("int", env.n))>>))

\* lines 126-189, without the two constant texts of the result; the files
\* are given by their number
get_gcp_api_documentation_info(env) ==
    LET docs_dir == PyStr(PathJoin(PathJoin(<<".">>, <<"d", "o", "c", "s">>), <<"g", "c", "p", "_", "a", "p", "i", "s">>))
        bool(b) == [type |-> "bool", s |-> IF b THEN <<"T", "r", "u", "e">> ELSE <<"F", "a", "l", "s", "e">>,
                    items |-> <<>>]
    IN IF env.exc # "none" THEN Raised(env.exc)
       ELSE IF ~env.found
       THEN Returned(PyDict(<<Item(<<"a", "v", "a", "i", "l", "a", "b", "l", "e">>, bool(FALSE)),
                              Item(<<"d", "o", "c", "s", "_", "d", "i", "r">>, docs_dir),
                              Item(<<"f", "i", "l", "e", "s">>, PyList(<<>>))>>))
       ELSE Returned(PyDict(<<Item(<<"a", "v", "a", "i", "l", "a", "b", "l", "e">>, bool(env.n > 0)),
                              Item(<<"d", "o", "c", "s", "_", "d", "i", "r">>, docs_dir),
                              Item(<<"f", "i", "l", "e", "s">>, PyList([i \in 1..env.n |-> PyDict(<<>>)])),
                              Item(<<"t", "o", "t", "a", "l", "_", "f", "i", "l", "e", "s">>, PyNum("int", env.n))>>))

\* lines 307-312: the value the outer tool returns
generate_comprehensive_overview(base_output_dir, agents_result, gcp_info) ==
    PyDict(<<Item(<<"i", "n", "d", "e", "x", "_", "f", "i", "l", "e">>, PyStr(PathJoin(base_output_dir.s, <<"R", "E", "A", "D", "M", "E", ".", "m", "d">>))),
             Item(<<"a", "g", "e", "n", "t", "s", "_", "o", "v", "e", "r", "v", "i", "e", "w">>, agents_result),
             Item(<<"g", "c", "p", "_", "a", "p", "i", "_", "d", "o", "c", "s">>, gcp_info),
             Item(<<"t", "o", "t", "a", "l", "_", "d", "o", "c", "u", "m", "e", "n", "t", "a", "t", "i", "o", "n", "_", "f", "i", "l", "e", "s">>,
                  PyNum("int", 1 + IntOf(DictGet(agents_result, <<"c", "o", "u", "n", "t">>,
                                                 PyNum("int", 0)).s)
                                 + IntOf(DictGet(gcp_info, <<"t", "o", "t", "a", "l", "_", "f", "i", "l", "e", "s">>,
                                                 PyNum("int", 0)).s)))>>)

\* a caller invokes agent.generate_comprehensive_overview(base_output_dir):
\* the wrapper calls func (line 90), whose body begins
InvokeOverview(base_output_dir) ==
    /\ frame["c1"].pc = "idle"
    /\ nstarted = 0
    /\ frame' = [frame EXCEPT !["c1"] =
                    [Idle EXCEPT !.pc = "func", !.agent = "doc",
                                 !.tool = "generate_comprehensive_overview",
                                 !.args = <<base_output_dir>>, !.via = "direct",
                                 !.nodir = ~dirExists]]
    /\ inner' = [at |-> 1, results |-> <<>>]
    /\ nstarted' = nstarted + 1
    /\ UNCHANGED <<log, dirExists, fileExists, clock, nreturned, nfailed>>
    /\ UNCHANGED stateVars
    /\ UNCHANGED <<listed, adk, summary, sent, upd, written, collected, docs>>

\* lines 207 and 210: the body calls self.generate_agents_overview(...) or
\* self.get_gcp_api_documentation_info(); the wrapper of that tool calls its
\* func (line 90)
CallInner(env) ==
    /\ frame["c1"].pc = "func"
    /\ inner.at \in {1, 2}
    /\ frame["c2"].pc = "idle"
    /\ LET call == InnerCall(inner.at, frame["c1"].args[1])
           result == IF inner.at = 1
                     THEN generate_agents_overview(call.args[1], call.args[2], env)
                     ELSE get_gcp_api_documentation_info(env)
           pc == AfterFunc(result)
       IN /\ frame' = [frame EXCEPT !["c2"] =
                         [Idle EXCEPT !.pc = pc, !.agent = "doc", !.tool = call.tool,
                                      !.args = call.args, !.via = "direct",
                                      !.result = result,
                                      !.delivered = IF pc = "raised"
                                                    THEN DeliverExc(result.exc)
                                                    ELSE NoDelivery,
                                      !.nodir = ~dirExists]]
          /\ docs' = IF inner.at = 1 /\ ~result.raised
                     THEN docs \cup {call.args[2].s} ELSE docs
    /\ nstarted' = nstarted + 1
    /\ UNCHANGED <<log, dirExists, fileExists, clock, nreturned, nfailed>>
    /\ UNCHANGED stateVars
    /\ UNCHANGED <<listed, adk, summary, sent, upd, inner, written, collected>>

\* the call made by the body has returned: the body has the value and goes on
InnerReturned ==
    /\ frame["c1"].pc = "func"
    /\ frame["c2"].pc = "returned"
    /\ inner' = [inner EXCEPT !.at = @ + 1,
                              !.results = Append(@, frame["c2"].delivered.val)]
    /\ frame' = [frame EXCEPT !["c2"] = Idle]
    /\ UNCHANGED <<log, dirExists, fileExists, clock, nstarted, nreturned, nfailed>>
    /\ UNCHANGED stateVars
    /\ UNCHANGED <<listed, adk, summary, sent, upd, written, collected, docs>>

\* the call made by the body has raised: the body has no handler, and the
\* wrapper of the outer tool is at line 90, outside its try
InnerRaised ==
    /\ frame["c1"].pc = "func"
    /\ frame["c2"].pc = "raised"
    /\ inner' = [inner EXCEPT !.at = 0]
    /\ frame' = [frame EXCEPT !["c2"] = Idle,
                              !["c1"].pc = "raised",
                              !["c1"].result = Raised(frame["c2"].delivered.exc),
                              !["c1"].delivered = DeliverExc(frame["c2"].delivered.exc)]
    /\ UNCHANGED <<log, dirExists, fileExists, clock, nstarted, nreturned, nfailed>>
    /\ UNCHANGED stateVars
    /\ UNCHANGED <<listed, adk, summary, sent, upd, written, collected, docs>>

\* lines 299-312: the index is written and the body returns, or the writing
\* raises
WriteIndex(exc) ==
    /\ frame["c1"].pc = "func"
    /\ inner.at = 3
    /\ LET base_output_dir == frame["c1"].args[1]
           result == IF exc # "none" THEN Raised(exc)
                     ELSE Returned(generate_comprehensive_overview(
                                       base_output_dir, inner.results[1], inner.results[2]))
           pc == AfterFunc(result)
       IN /\ frame' = [frame EXCEPT !["c1"].pc = pc,
                                    !["c1"].result = result,
                                    !["c1"].delivered = IF pc = "raised"
                                                        THEN DeliverExc(result.exc)
                                                        ELSE NoDelivery]
          /\ docs' = IF exc = "none"
                     THEN docs \cup {PathJoin(base_output_dir.s, <<"R", "E", "A", "D", "M", "E", ".", "m", "d">>)}
                     ELSE docs
    /\ inner' = [inner EXCEPT !.at = 0]
    /\ UNCHANGED <<log, dirExists, fileExists, clock, nstarted, nreturned, nfailed>>
    /\ UNCHANGED stateVars
    /\ UNCHANGED <<listed, adk, summary, sent, upd, written, collected>>

(***************************************************************************)
(* The text of a line as the wrapper writes it (base_agent.py, lines       *)
(* 98-99), for files that hold nothing else.  An agent_id is any text the  *)
(* constructor was given; a tool name is an identifier.                    *)
(***************************************************************************)
\* the f-string of lines 98-99 for a call without keyword arguments, for
\* which json.dumps gives {}; ts is the text of utcnow().isoformat()
FormatLine(ts, agent_id, name, args) ==
    <<"-", " ">> \o ts \o <<" ", "|", " ">> \o agent_id \o <<".">> \o name \o <<":", " ">>
    \o <<"{", "\"", "a", "r", "g", "s", "\"", ":", " ", "\"">> \o ArgsSummary(args)
    \o <<"\"", ",", " ", "\"", "k", "w", "a", "r", "g", "s", "\"", ":", " ", "{", "}", "}", "\n">>

\* the agent ids of the agents that write to the file
WriterIds == { <<"q", "a", "-", "1">>, <<"t", "e", "a", "m", ".", "q", "a">> }

\* the wrapper of tool name of the agent called agent_id appends its line
WrapperWrites(agent_id, name) ==
    /\ Len(summary.file) < MaxLines
    /\ summary' = [summary EXCEPT
                      !.exists = TRUE,
                      !.file = Append(@, FormatLine(<<"2", "0", "2", "5", "-", "0", "1", "-", "0", "1", "T", "1", "0", ":", "0", "0", ":", "0", "0">>, agent_id,
                                                    name, <<DictA>>))]
    /\ written' = Append(written, [agent |-> agent_id, tool |-> name])
    /\ UNCHANGED <<listed, adk, sent, upd, inner, collected, docs>>
    /\ UNCHANGED toolVars
    /\ UNCHANGED stateVars

\* a caller evaluates collect_tools(agent) and keeps the list
CallCollectTools(h) ==
    /\ collected' = [collected EXCEPT ![h] = <<collect_tools(h)>>]
    /\ UNCHANGED <<listed, adk, summary, sent, upd, inner, written, docs>>
    /\ UNCHANGED toolVars
    /\ UNCHANGED stateVars

InitMore ==
    /\ sent = NoMessage
    /\ upd = [c \in Callers |-> NoUpdate]
    /\ inner = NotRunning
    /\ written = <<>>
    /\ collected = [h \in AllAgents |-> <<>>]
    /\ docs = {}

(***************************************************************************)
(* Initial state and specifications.                                       *)
(***************************************************************************)
Init ==
    /\ frame = [c \in Callers |-> Idle]
    /\ log = <<>>
    /\ dirExists = TRUE
    /\ fileExists = FALSE
    /\ clock = 0
    /\ nstarted = 0
    /\ nreturned = [p \in Pairs |-> 0]
    /\ nfailed = 0
    /\ agents = [h \in Agents |-> NewAgent(h, IF h = "co" THEN 1 ELSE 5)]
    /\ heap = DefaultCells(1) \o DefaultCells(5)
    /\ held = {}
    /\ last = [op |-> "init", agent |-> "co", pre |-> 0, kw |-> NoFields, ret |-> 0,
               before |-> [h \in Agents |-> DeepValue(DefaultCells(1), 1)]]
    /\ nops = 0
    /\ listed = [h \in AllAgents |-> <<>>]
    /\ adk = NoAdk
    /\ summary = NoFile
    /\ InitMore

\* the same, in a checkout where the directory of the log does not exist yet
InitNoDir ==
    /\ frame = [c \in Callers |-> Idle]
    /\ log = <<>>
    /\ dirExists = FALSE
    /\ fileExists = FALSE
    /\ clock = 0
    /\ nstarted = 0
    /\ nreturned = [p \in Pairs |-> 0]
    /\ nfailed = 0
    /\ agents = [h \in Agents |-> NewAgent(h, IF h = "co" THEN 1 ELSE 5)]
    /\ heap = DefaultCells(1) \o DefaultCells(5)
    /\ held = {}
    /\ last = [op |-> "init", agent |-> "co", pre |-> 0, kw |-> NoFields, ret |-> 0,
               before |-> [h \in Agents |-> DeepValue(DefaultCells(1), 1)]]
    /\ nops = 0
    /\ listed = [h \in AllAgents |-> <<>>]
    /\ adk = NoAdk
    /\ summary = NoFile
    /\ InitMore

\* a process whose agents are a ComplianceOfficerAgent and a
\* FrontendDeveloperAgent
InitAsync ==
    /\ frame = [c \in Callers |-> Idle]
    /\ log = <<>>
    /\ dirExists = TRUE
    /\ fileExists = FALSE
    /\ clock = 0
    /\ nstarted = 0
    /\ nreturned = [p \in {<<"co", "check_compliance">>, <<"fd", "develop_feature">>} |-> 0]
    /\ nfailed = 0
    /\ agents = [h \in {"co", "fd"} |-> NewAgent(h, IF h = "co" THEN 1 ELSE 5)]
    /\ heap = DefaultCells(1) \o DefaultCells(5)
    /\ held = {}
    /\ last = [op |-> "init", agent |-> "co", pre |-> 0, kw |-> NoFields, ret |-> 0,
               before |-> [h \in {"co", "fd"} |-> DeepValue(DefaultCells(1), 1)]]
    /\ nops = 0
    /\ listed = [h \in AllAgents |-> <<>>]
    /\ adk = NoAdk
    /\ summary = NoFile
    /\ InitMore

\* a process whose agents are a DecisionMakerAgent, a
\* GoogleCloudAPIDocumentationAgent and a DocumentationAgent
Variants == {"dm", "gcp", "doc"}

InitVariants ==
    /\ frame = [c \in Callers |-> Idle]
    /\ log = <<>>
    /\ dirExists = TRUE
    /\ fileExists = FALSE
    /\ clock = 0
    /\ nstarted = 0
    /\ nreturned = [p \in UNION { {<<h, tool_methods(h)[k]>> : k \in 1..Len(tool_methods(h))} :
                                   h \in Variants } |-> 0]
    /\ nfailed = 0
    /\ agents = [h \in Variants |->
                    NewAgent(h, CASE h = "dm" -> 1 [] h = "gcp" -> 5 [] OTHER -> 9)]
    /\ heap = DefaultCells(1) \o DefaultCells(5) \o DefaultCells(9)
    /\ held = {}
    /\ last = [op |-> "init", agent |-> "dm", pre |-> 0, kw |-> NoFields, ret |-> 0,
               before |-> [h \in Variants |-> DeepValue(DefaultCells(1), 1)]]
    /\ nops = 0
    /\ listed = [h \in AllAgents |-> <<>>]
    /\ adk = NoAdk
    /\ summary = NoFile
    /\ InitMore

\* the calls of make_decision: contexts of complexity 5, 7, 7, 7 and 9, each
\* with no option and with three options of which one is repeated, under no
\* constraint; and calls under a tight budget and an aggressive deadline
DecisionInputs ==
    LET tight == Item(<<"b", "u", "d", "g", "e", "t">>, PyStr(<<"t", "i", "g", "h", "t">>))
        aggressive == Item(<<"d", "e", "a", "d", "l", "i", "n", "e">>, PyStr(<<"a", "g", "g", "r", "e", "s", "s", "i", "v", "e">>))
        many == Item(<<"s", "t", "a", "k", "e", "h", "o", "l", "d", "e", "r", "s">>, PyNum("int", 6))
        risky == Item(<<"r", "i", "s", "k", "_", "p", "r", "o", "f", "i", "l", "e">>, PyStr(<<"h", "i", "g", "h">>))
    IN { [args |-> <<context, options, PyDict(<<>>)>>, kwargs |-> EmptyKw] :
           context \in { PyDict(<<>>), PyDict(<<many>>), PyDict(<<risky>>),
                          PyDict(<<Item(<<"s", "t", "a", "k", "e", "h", "o", "l", "d", "e", "r", "s">>, PyNum("int", 5)), risky>>),
                          PyDict(<<many, risky>>) },
           options \in { PyList(<<>>), PyList(<<PyStr(S_B), PyStr(S_A), PyStr(S_B)>>) } }
       \cup
       { [args |-> <<PyDict(<<>>), PyList(<<PyStr(S_A)>>), PyDict(<<tight>>)>>,
          kwargs |-> EmptyKw],
         [args |-> <<PyDict(<<many, risky>>), PyList(<<PyStr(S_A)>>),
                     PyDict(<<tight, aggressive>>)>>,
          kwargs |-> EmptyKw] }

\* one caller's calls of make_decision
NextDecision ==
    \/ \E in \in DecisionInputs : Invoke("c1", "dm", "make_decision", in, "direct")
    \/ \E fault \in Faults, now \in 0..MaxClock : AppendAction("c1", fault, now)
    \/ Return("c1")
    \/ Resume("c1")

SpecDecision == InitVariants /\ [][NextDecision]_vars

\* one caller's calls of generate_gcp_api_documentation
NextGcp ==
    \/ \E in \in GcpInputs, env \in GcpEnvs : InvokeGcp("c1", in, env)
    \/ \E fault \in Faults, now \in 0..MaxClock : AppendAction("c1", fault, now)
    \/ Return("c1")
    \/ Resume("c1")

SpecGcp == InitVariants /\ [][NextGcp]_vars

\* one call of generate_comprehensive_overview
NextOverview ==
    \/ InvokeOverview(PyStr(<<"o", "u", "t">>))
    \/ \E env \in InnerEnvs(inner.at) : CallInner(env)
    \/ \E c \in Callers, fault \in Faults, now \in 0..MaxClock : AppendAction(c, fault, now)
    \/ \E c \in Callers : Return(c)
    \/ InnerReturned
    \/ InnerRaised
    \/ \E exc \in {"none", "PermissionError"} : WriteIndex(exc)
    \/ Resume("c1")

SpecOverview == InitVariants /\ [][NextOverview]_vars

\* a file written by the wrapper only, and summarised
NextRoundTrip ==
    \/ \E agent_id \in WriterIds, name \in { <<"c", "h", "e", "c", "k">>, <<"s", "h", "i", "p">> } :
          WrapperWrites(agent_id, name)
    \/ summarize_action_logs

SpecRoundTrip == Init /\ [][NextRoundTrip]_vars

NextTools ==
    \/ \E c \in Callers, h \in Agents, name \in {"check_compliance", "manage_release"},
          via \in {"direct", "tool_methods"} :
          \E in \in CallInputs(name) : Invoke(c, h, name, in, via)
    \/ \E c \in Callers, fault \in Faults, now \in 0..MaxClock : AppendAction(c, fault, now)
    \/ \E c \in Callers : Return(c)
    \/ \E c \in Callers : Resume(c)

NextState ==
    \/ \E h \in Agents : \E in \in UpdateInputs(Len(heap)) : update_state(h, in)
    \/ \E h \in Agents : get_state(h)
    \/ \E x \in held, k \in Fields : MutateSnapshot(x, k)

NextAsync ==
    \/ \E c \in Callers, h \in {"co", "fd"}, name \in {"check_compliance", "develop_feature"},
          via \in {"direct", "tool_methods"} :
          \E in \in CallInputs(name) : Invoke(c, h, name, in, via)
    \/ \E c \in Callers, fault \in Faults, now \in 0..MaxClock : AppendAction(c, fault, now)
    \/ \E c \in Callers : Return(c)
    \/ \E c \in Callers : Await(c)
    \/ \E c \in Callers : Resume(c)

\* the wrapper's steps for callers that each pass one dict to a tool
NextNoDir ==
    \/ \E c \in Callers, h \in Agents, name \in {"check_compliance", "manage_release"} :
          Invoke(c, h, name, [args |-> <<DictA>>, kwargs |-> EmptyKw], "direct")
    \/ \E c \in Callers, fault \in Faults, now \in 0..MaxClock : AppendAction(c, fault, now)
    \/ \E c \in Callers : Return(c)
    \/ \E c \in Callers : Resume(c)

NextIntrospect == \E h \in AllAgents : CallToolMethods(h)

\* as_adk_agent calls, and one tool invocation by one caller on the same
\* agents, before, between or after them
NextAdk ==
    \/ \E h \in Agents, name \in {"check_compliance", "manage_release"},
          via \in {"direct", "tool_methods"} :
          \E in \in CallInputs(name) : nstarted = 0 /\ Invoke("c1", h, name, in, via)
    \/ \E fault \in Faults, now \in 0..MaxClock : AppendAction("c1", fault, now)
    \/ Return("c1")
    \/ Resume("c1")
    \/ \E h \in Agents, in \in AdkInputs, importable \in BOOLEAN :
          as_adk_agent(h, in, importable)

NextSummary ==
    \/ \E l \in SampleLines : WriteLine(l)
    \/ summarize_action_logs

Next == NextTools \/ NextState

SpecTools == Init /\ [][NextTools]_vars

SpecState == Init /\ [][NextState]_vars

Spec == Init /\ [][Next]_vars

SpecNoDir == InitNoDir /\ [][NextNoDir]_vars

SpecAsync == InitAsync /\ [][NextAsync]_vars

SpecIntrospect == Init /\ [][NextIntrospect]_vars

SpecAdk == Init /\ [][NextAdk]_vars

SpecSummary == Init /\ [][NextSummary]_vars

\* send_message calls, with one tool invocation by one caller and one
\* update_state before, between or after them
NextMessage ==
    \/ \E h \in Agents, in \in MessageInputs, id \in {"uuid-1", "uuid-2"} :
          send_message(h, in, id, clock)
    \/ \E h \in Agents, name \in {"check_compliance", "manage_release"} :
          /\ nstarted = 0
          /\ Invoke("c1", h, name, [args |-> <<DictA>>, kwargs |-> EmptyKw], "direct")
    \/ \E fault \in Faults, now \in 0..MaxClock : AppendAction("c1", fault, now)
    \/ Return("c1")
    \/ Resume("c1")
    \/ \E h \in Agents : \E in \in UpdateInputs(Len(heap)) :
          nops = 0 /\ update_state(h, in)

SpecMessage == Init /\ [][NextMessage]_vars

\* two threads, each making one update_state call
NextRace ==
    \/ \E c \in Callers, h \in Agents, kw \in RaceInputs : UpdateCopy(c, h, kw)
    \/ \E c \in Callers : UpdateReplace(c)

SpecRace == Init /\ [][NextRace]_vars

\* both ways of listing an agent's tools, each agent listed once by
\* tool_methods
NextCollect ==
    \/ \E h \in AllAgents : Len(listed[h]) = 0 /\ CallToolMethods(h)
    \/ \E h \in AllAgents : CallCollectTools(h)

SpecCollect == Init /\ [][NextCollect]_vars

\* every operation of an agent, each made once by one caller: a tool
\* invocation, update_state, get_state, send_message, tool_methods and
\* as_adk_agent, in any order
NextIdentity ==
    \/ \E h \in Agents, name \in {"check_compliance", "manage_release"} :
          /\ nstarted = 0
          /\ Invoke("c1", h, name, [args |-> <<DictA>>, kwargs |-> EmptyKw], "direct")
    \/ \E fault \in Faults : AppendAction("c1", fault, clock)
    \/ Return("c1")
    \/ Resume("c1")
    \/ \E h \in Agents : UpdateCopy("c1", h, [k \in {"status"} |-> Scalar("busy")])
    \/ UpdateReplace("c1")
    \/ \E h \in Agents : nops = 0 /\ get_state(h)
    \/ \E h \in Agents :
          /\ sent.op = "none"
          /\ send_message(h, CHOOSE in \in MessageInputs : in.given = {}, "uuid-1", clock)
    \/ \E h \in Agents : Len(listed[h]) = 0 /\ CallToolMethods(h)
    \/ \E h \in Agents, importable \in BOOLEAN :
          /\ adk.op = "none"
          /\ as_adk_agent(h, NoAdk.in, importable)

SpecIdentity == Init /\ [][NextIdentity]_vars


(***************************************************************************)
(* Properties of the tool wrapper and the action log (SpecTools).          *)
(***************************************************************************)
Quiescent == \A c \in Callers : frame[c].pc \in {"idle", "returned", "raised"}

LinesOf(agent_id, name) ==
    Cardinality({i \in DOMAIN log : log[i].agent = agent_id /\ log[i].tool = name})

\* invocations of agent h's tool name that have written and not yet returned
Pending(h, name) ==
    Cardinality({c \in Callers : /\ frame[c].pc = "ret"
                                 /\ frame[c].agent = h
                                 /\ frame[c].tool = name})

\* C1: as long as no append has failed, the log holds exactly one line for
\* every tool invocation that has returned (and one for every invocation
\* that has written and is about to return), and the line carries the id
\* of the invoking agent and the name of the tool; so when no invocation is
\* in flight the number of lines is the number of returned invocations.
OneLinePerReturnedCall ==
    nfailed = 0 =>
        /\ \A p \in Pairs :
              LinesOf(agents[p[1]].agent_id, p[2]) = nreturned[p] + Pending(p[1], p[2])
        /\ \A i \in DOMAIN log :
              \E p \in Pairs : log[i].agent = agents[p[1]].agent_id /\ log[i].tool = p[2]
        /\ Quiescent =>
              Len(log) = nreturned[<<"co", "check_compliance">>]
                         + nreturned[<<"rm", "manage_release">>]

OneLinePerReturnedCallWitness ==
    /\ nfailed = 0
    /\ Quiescent
    /\ Len(log) = 2
    /\ nreturned[<<"co", "check_compliance">>] = 1
    /\ nreturned[<<"rm", "manage_release">>] = 1

\* C2: an invocation whose domain function raises writes nothing to the log
\* and ends with that same exception delivered to the caller.
RaisingCallLogsNothing ==
    \A c \in Callers :
        (frame[c].pc # "idle" /\ Func(frame[c].tool, frame[c].args, frame[c].kwargs).raised)
        => /\ frame[c].pc = "raised"
           /\ ~frame[c].wrote
           /\ frame[c].delivered =
                 DeliverExc(Func(frame[c].tool, frame[c].args, frame[c].kwargs).exc)

RaisingCallLogsNothingWitness ==
    \E c \in Callers :
        /\ frame[c].pc = "raised"
        /\ frame[c].delivered = DeliverExc("AttributeError")
        /\ Len(log) = 1

\* C3: an invocation whose append to the log failed still goes on to return:
\* no exception reaches the caller and the value delivered is the result of
\* the domain function.
AppendFailureIsSwallowed ==
    \A c \in Callers :
        frame[c].failed
        => /\ frame[c].pc \in {"ret", "returned"}
           /\ frame[c].delivered.kind # "exc"
           /\ frame[c].pc = "returned" =>
                 frame[c].delivered =
                    DeliverValue(Func(frame[c].tool, frame[c].args, frame[c].kwargs).val)

AppendFailureIsSwallowedWitness ==
    \E c \in Callers :
        /\ frame[c].failed
        /\ frame[c].pc = "returned"
        /\ frame[c].delivered.val.type = "dict"
        /\ ~fileExists

\* C4: every invocation that returns, whether made on the attribute or on a
\* callable taken from tool_methods(), delivers the value the undecorated
\* function gives for the same arguments.
WrapperReturnsDomainValue ==
    \A c \in Callers :
        frame[c].pc = "returned"
        => /\ ~Func(frame[c].tool, frame[c].args, frame[c].kwargs).raised
           /\ frame[c].delivered =
                 DeliverValue(Func(frame[c].tool, frame[c].args, frame[c].kwargs).val)

WrapperReturnsDomainValueWitness ==
    /\ frame["c1"].pc = "returned"
    /\ frame["c1"].via = "tool_methods"
    /\ frame["c1"].delivered.val = manage_release(DictLong).val
    /\ frame["c2"].pc = "returned"
    /\ frame["c2"].via = "direct"
    /\ frame["c2"].delivered.val = check_compliance(DictB).val

\* C5: the log only grows at its end: what it held before a step is an
\* unchanged prefix of what it holds after the step.
LogIsAppendOnly ==
    [][Len(log') >= Len(log) /\ SubSeq(log', 1, Len(log)) = log]_vars

LogIsAppendOnlyWitness ==
    /\ Len(log) = 2
    /\ log[1].src.agent # log[2].src.agent

\* C6: the lines of two invocations of the same tool by the same agent with
\* the same positional arguments and keyword arguments of the same names and
\* types are the same text but for the timestamp, whatever the keyword values.
LineText(line) ==
    [agent |-> line.agent, tool |-> line.tool, args |-> line.args,
     kwargs |-> line.kwargs]

SameButKwargValues(a, b) ==
    /\ a.agent = b.agent
    /\ a.name = b.name
    /\ a.args = b.args
    /\ DOMAIN a.kwargs = DOMAIN b.kwargs
    /\ \A k \in DOMAIN a.kwargs : TypeName(a.kwargs[k]) = TypeName(b.kwargs[k])

KwargValuesNotLogged ==
    \A i, j \in DOMAIN log :
        (log[i].complete /\ log[j].complete /\ SameButKwargValues(log[i].src, log[j].src))
        => LineText(log[i]) = LineText(log[j])

KwargValuesNotLoggedWitness ==
    /\ Len(log) = 2
    /\ log[1].complete /\ log[2].complete
    /\ SameButKwargValues(log[1].src, log[2].src)
    /\ log[1].src.kwargs # log[2].src.kwargs
    /\ log[1].ts # log[2].ts

(***************************************************************************)
(* Properties of the state operations (SpecState).                         *)
(***************************************************************************)
StateOf(h) == heap[agents[h].state]

Scenario ==
    [k \in {"status", "current_task"} |->
        IF k = "status" THEN Scalar("busy") ELSE Scalar("T1")]

Empty(kind) == [kind |-> kind, v |-> "", f |-> [k \in {} |-> ""], l |-> <<>>]

Shown(v) == [kind |-> "scalar", v |-> v, f |-> NoFields, l |-> <<>>]

FreshValue ==
    [k \in Fields |->
        CASE k = "status" -> Shown("idle")
          [] k = "current_task" -> Shown("None")
          [] k = "resource_utilization" -> Empty("dict")
          [] k = "dependencies" -> Empty("list")
          [] k = "performance_metrics" -> Empty("dict")]

\* C7: after update_state the agent's state is the prior state with exactly
\* the given fields overridden, and the call returns that state; get_state
\* then shows it: on a fresh agent, update_state(status=busy,
\* current_task=T1) leaves every other field at its default.
UpdateStateOverridesGivenFields ==
    /\ last.op = "update_state" =>
          /\ StateOf(last.agent).kind = "AgentState"
          /\ DOMAIN StateOf(last.agent).f = Fields
          /\ \A k \in Fields :
                StateOf(last.agent).f[k] =
                    IF k \in DOMAIN last.kw THEN last.kw[k] ELSE heap[last.pre].f[k]
          /\ last.ret = agents[last.agent].state
          /\ (last.before[last.agent] = FreshValue /\ last.kw = Scenario) =>
                DeepValue(heap, agents[last.agent].state) =
                    [FreshValue EXCEPT !["status"] = Shown("busy"),
                                       !["current_task"] = Shown("T1")]
    /\ last.op = "get_state" =>
          DeepValue(heap, last.ret) = DeepValue(heap, agents[last.agent].state)

UpdateStateOverridesGivenFieldsWitness ==
    /\ last.op = "get_state"
    /\ DeepValue(heap, last.ret) =
          [FreshValue EXCEPT !["status"] = Shown("busy"), !["current_task"] = Shown("T1")]
    /\ nops = 2

\* C8: every AgentState object that was an agent's state before an
\* update_state call still has the value it had then.
PriorStatesUnchanged ==
    \A x \in held : x.kind = "state" => DeepValue(heap, x.addr) = x.frozen

PriorStatesUnchangedWitness ==
    \E x \in held :
        /\ x.kind = "state"
        /\ x.frozen = FreshValue
        /\ DeepValue(heap, agents["co"].state) # FreshValue
        /\ x.addr = 1
        /\ nops = 3

\* C9: a change made to a mapping returned by get_state, or to a container
\* inside it, leaves the state of every agent as it was.
SnapshotIsIndependent ==
    last.op = "mutate" =>
        \A h \in Agents : DeepValue(heap, agents[h].state) = last.before[h]

SnapshotIsIndependentWitness ==
    /\ last.op = "mutate"
    /\ "resource_utilization" \in DOMAIN last.kw
    /\ DeepValue(heap, last.ret) # DeepValue(heap, agents[last.agent].state)
    /\ last.before[last.agent] # FreshValue

\* C10: the status of every agent is always one of the five declared values,
\* and a fresh agent is idle with no task and empty containers.
StatusAlwaysDeclared ==
    /\ \A h \in Agents :
          /\ StateOf(h).f["status"].ref = 0
          /\ StateOf(h).f["status"].v \in Status
    /\ nops = 0 => \A h \in Agents : DeepValue(heap, agents[h].state) = FreshValue

(***************************************************************************)
(* Properties of tool discovery (SpecIntrospect).                          *)
(***************************************************************************)
Names(seq) == {seq[i] : i \in 1..Len(seq)}

\* the methods the source decorates with @tool
Decorated ==
    {"check_compliance", "manage_release", "develop_feature",
     "generate_agents_overview", "summarize_action_logs",
     "get_gcp_api_documentation_info", "generate_comprehensive_overview",
     "make_decision", "generate_gcp_api_documentation",
     "generate_api_usage_examples", "create_agent_integration_guide"}

\* C12: every list tool_methods() has returned for an agent holds, once
\* each, exactly the agent's attributes that are callable, do not start with
\* an underscore and carry the tool flag: all the decorated methods of the
\* variant, no undecorated method and no data attribute; for the agent with
\* no tool the list is empty.
ToolMethodsAreTheFlaggedPublicCallables ==
    \A h \in AllAgents : \A n \in 1..Len(listed[h]) :
        /\ Names(listed[h][n]) =
               {a \in Attrs(h) : IsCallable(a) /\ ~StartsWithUnderscore(a) /\ IsTool(a)}
        /\ Names(listed[h][n]) = Names(Declared(h)) \cap Decorated
        /\ Cardinality(Names(listed[h][n])) = Len(listed[h][n])
        /\ Names(listed[h][n]) \cap BaseAttrs = {}
        /\ h = "ua" => listed[h][n] = <<>>

ToolMethodsAreTheFlaggedPublicCallablesWitness ==
    /\ Len(listed["ua"]) > 0
    /\ Len(listed["doc"]) > 0 /\ Len(listed["doc"][1]) = 4
    /\ Len(listed["fd"]) > 0 /\ listed["fd"][1] = <<"develop_feature">>

\* the tools of a list, in the order in which the class body declares them
InDeclarationOrder(h, names) == names = Keep(Declared(h), 1, Names(names))

\* the tools of a list, in the order of their names
InNameOrder(names) == names = Keep(SortedNames, 1, Names(names))

\* C20 as stated: every list tool_methods() returns is in the declaration
\* order of the variant's class, and the lists of one agent are equal.
ToolsInDeclarationOrder ==
    \A h \in AllAgents : \A n \in 1..Len(listed[h]) :
        /\ InDeclarationOrder(h, listed[h][n])
        /\ listed[h][n] = listed[h][1]

\* C20: every list tool_methods() returns is in the sorted order of the
\* method names (for a DocumentationAgent: generate_agents_overview,
\* generate_comprehensive_overview, get_gcp_api_documentation_info,
\* summarize_action_logs), and repeated calls on one agent return equal lists.
ToolsInNameOrder ==
    \A h \in AllAgents : \A n \in 1..Len(listed[h]) :
        /\ InNameOrder(listed[h][n])
        /\ listed[h][n] = listed[h][1]
        /\ h = "doc" =>
              listed[h][n] = <<"generate_agents_overview",
                               "generate_comprehensive_overview",
                               "get_gcp_api_documentation_info",
                               "summarize_action_logs">>

ToolsInNameOrderWitness ==
    /\ Len(listed["doc"]) = 2
    /\ ~InDeclarationOrder("doc", listed["doc"][2])

(***************************************************************************)
(* Properties of the bridge to the external framework (SpecAdk).           *)
(***************************************************************************)
\* C13: the tools given to the Agent constructor are the caller's list
\* whenever the caller gave one, an empty list included, and the result of
\* tool_methods() only when the caller gave none: the list that
\* ensure_tool_list resolves.
ExplicitToolListIsPassed ==
    (adk.op = "as_adk_agent" /\ ~adk.raised) =>
        /\ adk.request.tools = ensure_tool_list(adk.in.tools, adk.agent)
        /\ ~adk.in.tools.none => adk.request.tools = adk.in.tools.names

\* C14: an as_adk_agent call whose import fails raises to the caller after
\* logging an error, and leaves every agent's agent_id, role, model and
\* state, and the state objects, as they were; a tool invocation that
\* returns after a failed call still delivers the domain value.
ImportFailureLeavesAgentUsable ==
    /\ [][\A h \in Agents, in \in AdkInputs :
             as_adk_agent(h, in, FALSE) =>
                 /\ adk'.raised /\ adk'.exc = "ImportError" /\ adk'.logged = "error"
                 /\ agents' = agents
                 /\ heap' = heap]_vars
    /\ [](adk.raised =>
             /\ \A h \in Agents : agents[h] = NewAgent(h, agents[h].state)
             /\ \A c \in Callers :
                   frame[c].pc = "returned" =>
                       frame[c].delivered = DeliverValue(frame[c].result.val))

ImportFailureLeavesAgentUsableWitness ==
    /\ adk.raised
    /\ adk.started = 0
    /\ nstarted = 1
    /\ frame["c1"].pc = "returned"
    /\ frame["c1"].agent = adk.agent
    /\ frame["c1"].delivered.kind = "value"
    /\ Len(log) = 1
    /\ log[1].agent = agents[adk.agent].agent_id

(***************************************************************************)
(* Further properties of the wrapper and the action log.                   *)
(***************************************************************************)
\* the log holds a complete line of the invocation caller c is inside
HasLineOf(c) ==
    \E i \in DOMAIN log :
        /\ log[i].complete
        /\ log[i].src = [agent |-> agents[frame[c].agent].agent_id, name |-> frame[c].tool,
                         args |-> frame[c].args, kwargs |-> frame[c].kwargs]

EveryLineIsOneCompleteRecord == \A i \in DOMAIN log : log[i].complete

\* C18: an invocation whose append has failed has called logger.debug by the
\* time the wrapper returns.
FailedAppendIsDiagnosed ==
    \A c \in Callers :
        (frame[c].pc \in {"ret", "returned"} /\ frame[c].failed) => frame[c].debugged

(***************************************************************************)
(* The async tool (SpecAsync).                                             *)
(***************************************************************************)
\* C19: a line is in the log for an invocation only if the invocation's
\* domain logic has run to successful completion: an invocation that has
\* written its line is not one whose coroutine has yet to run or has failed.
LineOnlyAfterDomainLogic ==
    \A c \in Callers : frame[c].wrote => frame[c].coro \in {"none", "done"}

(***************************************************************************)
(* Properties of summarize_action_logs (SpecSummary).                      *)
(***************************************************************************)
\* a line the summarizer is to skip: blank, a "#" line, or one it cannot parse
Skipped(raw) ==
    \/ Strip(raw) = <<>>
    \/ Head(Strip(raw)) = "#"
    \/ ~ParseLine(Strip(raw)).ok

Counted(raw) == ~Skipped(raw)

\* C17: the summary of a file is the summary of the file without its blank,
\* "#"-prefixed and malformed lines: such lines add nothing to total,
\* by_agent or by_tool.
SkippedLinesCountNothing ==
    summary.done => summary.out = Summarize(TRUE, SelectSeq(summary.read, Counted))

(***************************************************************************)
(* The content of a line (SpecTools).                                      *)
(***************************************************************************)
\* C21: whenever the log grows, the new line was written by an invocation
\* that was at the append step; it carries the reading of the clock, the
\* agent_id of the invoking agent and the name of the decorated function
\* (never the wrapper's), the names of the keyword arguments, and a
\* rendering of the positional arguments that is the first characters of
\* str(args) and at most 120 characters long.
LineCarriesIdNameAndBoundedArgs ==
    [][Len(log') > Len(log) =>
          \E c \in Callers :
              /\ frame[c].pc = "log" /\ frame'[c].pc = "ret"
              /\ LET l == log'[Len(log')]
                 IN /\ l.ts = clock'
                    /\ l.agent = agents[frame[c].agent].agent_id
                    /\ l.agent = Defaults(frame[c].agent).agent_id
                    /\ l.tool = frame[c].tool
                    /\ l.tool \in Decorated
                    /\ DOMAIN l.kwargs = DOMAIN frame[c].kwargs
                    /\ Len(l.args) <= 120
                    /\ Len(l.args) <= Len(StrTuple(frame[c].args))
                    /\ l.args = SubSeq(StrTuple(frame[c].args), 1, Len(l.args))
                    /\ Len(StrTuple(frame[c].args)) > 120 => Len(l.args) = 120]_vars

LineCarriesIdNameAndBoundedArgsWitness ==
    \E i \in DOMAIN log :
        /\ log[i].complete
        /\ Len(log[i].args) = 120
        /\ Len(StrTuple(log[i].src.args)) > 120
        /\ log[i].tool = "manage_release"
        /\ log[i].agent = "release-manager-001"
(***************************************************************************)
(* Messages (SpecMessage).                                                 *)
(***************************************************************************)
\* C22: a send_message call gives a Message whose sender is the agent's id,
\* whose recipient, type and payload are the arguments, whose priority,
\* requires_response and deadline are the arguments when passed and medium,
\* false and None when not; the call changes nothing else: not the agent,
\* not its state, not the action log or its file, not any running call.
SendMessageOnlyBuildsMessage ==
    [][sent' # sent =>
          LET m == sent'.ret
              in == sent'.in
          IN /\ sent'.op = "send_message"
             /\ m.sender = agents[sent'.agent].agent_id
             /\ m.recipient = in.recipient
             /\ m.message_type = in.message_type
             /\ m.payload = in.payload
             /\ m.priority = IF "priority" \in in.given THEN in.priority ELSE "medium"
             /\ m.requires_response =
                   IF "requires_response" \in in.given THEN in.requires_response
                                                       ELSE "False"
             /\ m.deadline = IF "deadline" \in in.given THEN in.deadline ELSE "None"
             /\ agents' = agents /\ heap' = heap /\ held' = held
             /\ log' = log /\ fileExists' = fileExists /\ dirExists' = dirExists
             /\ frame' = frame
             /\ UNCHANGED <<clock, nstarted, nreturned, nfailed, last, nops>>
             /\ UNCHANGED <<listed, adk, summary, upd, inner, written, collected, docs>>]_vars

SendMessageOnlyBuildsMessageWitness ==
    /\ sent.op = "send_message"
    /\ sent.in.given = {"priority", "deadline"}
    /\ sent.ret.priority = "high"
    /\ sent.ret.requires_response = "False"
    /\ sent.ret.sender = "release-manager-001"
    /\ Len(log) = 1
    /\ nops = 1

(***************************************************************************)
(* Concurrent update_state calls (SpecRace).                               *)
(***************************************************************************)
\* the two calls are finished, were made on agent h and name different fields
BothUpdated(c, d, h) ==
    /\ c # d
    /\ upd[c].pc = "done" /\ upd[d].pc = "done"
    /\ upd[c].agent = h /\ upd[d].agent = h
    /\ DOMAIN upd[c].kw \cap DOMAIN upd[d].kw = {}

\* the state of agent h has the value that call c gave to each of its fields
Holds(h, c) ==
    \A k \in DOMAIN upd[c].kw : heap[agents[h].state].f[k] = upd[c].kw[k]

\* C23: two update_state calls on one agent that name different fields and
\* ran one after the other leave a state holding both calls' fields.  (The
\* other half, that calls which overlap can lose one call's field, is the
\* state LostUpdateWitness.)
SequentialUpdatesKeepBothFields ==
    \A c, d \in Callers, h \in Agents :
        BothUpdated(c, d, h) /\ upd[c].alone /\ upd[d].alone
            => Holds(h, c) /\ Holds(h, d)

\* both calls read the state before either replaced it, and the field of one
\* of them is not in the state they left
LostUpdateWitness ==
    \E c, d \in Callers, h \in Agents :
        /\ BothUpdated(c, d, h)
        /\ ~upd[c].alone /\ ~upd[d].alone
        /\ upd[c].old = upd[d].old
        /\ Holds(h, d) /\ ~Holds(h, c)

(***************************************************************************)
(* The identity of an agent (SpecIdentity).                                *)
(***************************************************************************)
\* C24: whatever operations have been made on an agent, its agent_id and its
\* role are the ones it was constructed with.
IdentityNeverChanges ==
    \A h \in Agents :
        /\ agents[h].agent_id = Defaults(h).agent_id
        /\ agents[h].role = Defaults(h).role

\* every operation has been made on the release manager
IdentityNeverChangesWitness ==
    /\ frame["c1"].pc = "returned" /\ frame["c1"].agent = "rm" /\ Len(log) = 1
    /\ upd["c1"].pc = "done" /\ upd["c1"].agent = "rm"
    /\ heap[agents["rm"].state].f["status"] = Scalar("busy")
    /\ last.op = "get_state" /\ last.agent = "rm"
    /\ sent.op = "send_message" /\ sent.agent = "rm"
    /\ Len(listed["rm"]) = 1
    /\ adk.op = "as_adk_agent" /\ adk.agent = "rm"
    /\ agents["rm"].role = "Deployment coordination and release management"

(***************************************************************************)
(* Decisions (SpecDecision).                                               *)
(***************************************************************************)
\* caller c is in, or has just left, a call of make_decision
Made(c) == frame[c].tool = "make_decision" /\ frame[c].pc # "idle"

\* the context names more than 5 stakeholders and a high risk_profile
Complex(context) ==
    /\ \E i \in 1..Len(context.items) :
          /\ context.items[i].k = <<"s", "t", "a", "k", "e", "h", "o", "l", "d", "e", "r", "s">>
          /\ IntOf(context.items[i].v.s) > 5
    /\ \E i \in 1..Len(context.items) :
          /\ context.items[i].k = <<"r", "i", "s", "k", "_", "p", "r", "o", "f", "i", "l", "e">>
          /\ context.items[i].v = PyStr(<<"h", "i", "g", "h">>)

\* r is the return of an escalation for these arguments
Escalated(r, args) ==
    /\ ~r.raised
    /\ r.val.type = "dict"
    /\ Len(r.val.items) = 4
    /\ r.val.items[1] = Item(<<"a", "c", "t", "i", "o", "n">>, PyStr(<<"e", "s", "c", "a", "l", "a", "t", "e">>))
    /\ r.val.items[2] = Item(<<"c", "o", "n", "t", "e", "x", "t">>, args[1])
    /\ r.val.items[3] = Item(<<"o", "p", "t", "i", "o", "n", "s">>, args[2])
    /\ r.val.items[4].k = <<"s", "c", "o", "r", "e", "s">>
    /\ \A i \in 1..Len(args[2].items) :
          \E j \in 1..Len(r.val.items[4].v.items) :
              r.val.items[4].v.items[j].k = args[2].items[i].v.s

\* r is the return of a decision for these arguments: one of the options,
\* whose weighted sum no option exceeds, and a score for every option
Decided(r, args) ==
    /\ ~r.raised
    /\ r.val.type = "dict"
    /\ Len(r.val.items) = 2
    /\ r.val.items[1].k = <<"d", "e", "c", "i", "s", "i", "o", "n">>
    /\ r.val.items[2].k = <<"s", "c", "o", "r", "e", "s">>
    /\ LET scores == r.val.items[2].v
       IN /\ \A i \in 1..Len(args[2].items) :
                \E j \in 1..Len(scores.items) : scores.items[j].k = args[2].items[i].v.s
          /\ \E j \in 1..Len(scores.items) :
                /\ r.val.items[1].v = PyStr(scores.items[j].k)
                /\ \A k \in 1..Len(scores.items) :
                      Weighted(scores.items[k].v, 1) <= Weighted(scores.items[j].v, 1)

NoOptionRaisesAndWritesNothing ==
    /\ \A c \in Callers :
          Made(c) /\ Len(frame[c].args[2].items) = 0 /\ ~Complex(frame[c].args[1])
              => /\ frame[c].pc = "raised"
                 /\ frame[c].delivered = DeliverExc("AssertionError")
                 /\ ~frame[c].wrote
    /\ \A i \in DOMAIN log :
          log[i].tool = "make_decision"
              => Len(log[i].src.args[2].items) > 0 \/ Complex(log[i].src.args[1])

\* such a call has failed after an earlier call was logged
NoOptionRaisesAndWritesNothingWitness ==
    /\ Made("c1") /\ frame["c1"].pc = "raised"
    /\ Len(frame["c1"].args[2].items) = 0
    /\ ~Complex(frame["c1"].args[1])
    /\ frame["c1"].delivered = DeliverExc("AssertionError")
    /\ Len(log) = 1

Documenting(c) ==
    frame[c].tool = "generate_gcp_api_documentation" /\ frame[c].pc # "idle"

\* v is the value returned for a failure
ErrorValue(v) ==
    /\ v.type = "dict"
    /\ \E i \in 1..Len(v.items) : v.items[i].k = <<"e", "r", "r", "o", "r">>
    /\ DictGet(v, <<"w", "r", "i", "t", "t", "e", "n", "_", "t", "o">>, PyStr(<<>>)) = PyNone
    /\ DictGet(v, <<"a", "p", "i", "_", "c", "o", "u", "n", "t">>, PyNone) = PyNum("int", 0)
    /\ DictGet(v, <<"t", "o", "o", "l", "_", "c", "o", "u", "n", "t">>, PyNone)
          = PyNum("int", 0)
    /\ DictGet(v, <<"c", "a", "t", "e", "g", "o", "r", "i", "e", "s">>, PyNone) = PyList(<<>>)

\* C30, as stated: a call never raises; whatever fails, the call returns the
\* value for a failure, and once it has returned its line is in the log.
DocumentationNeverRaises ==
    /\ [][\A c \in Callers, in \in GcpInputs, env \in GcpEnvs :
             InvokeGcp(c, in, env) =>
                 /\ ~frame'[c].result.raised
                 /\ GcpFailure(in.args[2], env) # "ok" => ErrorValue(frame'[c].result.val)]_vars
    /\ [](\A c \in Callers :
             Documenting(c) =>
                 /\ frame[c].pc # "raised"
                 /\ frame[c].pc = "returned" => HasLineOf(c))

\* C30, amended: a failure that is an Exception is returned as the value for
\* a failure; only an exception outside Exception (SystemExit,
\* KeyboardInterrupt) leaves the call; a call that returned has received
\* the value, and its line is in the log unless the append failed.
DocumentationRaisesNoException ==
    /\ [][\A c \in Callers, in \in GcpInputs, env \in GcpEnvs :
             InvokeGcp(c, in, env) =>
                 LET failure == GcpFailure(in.args[2], env)
                     r == frame'[c].result
                 IN /\ r.raised <=> failure \in {"SystemExit", "KeyboardInterrupt",
                                                  "GeneratorExit"}
                    /\ r.raised => r.exc = failure /\ log' = log
                    /\ failure # "ok" /\ ~r.raised => ErrorValue(r.val)
                    /\ failure = "ok" => ~ErrorValue(r.val) /\ in.args[2].s \in docs']_vars
    /\ [](\A c \in Callers :
             Documenting(c) =>
                 /\ frame[c].pc = "raised" => ~IsException(frame[c].delivered.exc)
                 /\ frame[c].pc = "returned" =>
                       /\ frame[c].delivered = DeliverValue(frame[c].result.val)
                       /\ ~frame[c].failed => HasLineOf(c))

\* a call whose output could not be opened has returned the value for a
\* failure and its line is in the log
DocumentationRaisesNoExceptionWitness ==
    /\ Documenting("c1") /\ frame["c1"].pc = "returned"
    /\ ErrorValue(frame["c1"].delivered.val)
    /\ frame["c1"].args[2].s = <<"d", "o", "c", "s", "/", "g", ".", "m", "d">>
    /\ frame["c1"].delivered.val.items[1].v.s = <<"PermissionError">>
    /\ HasLineOf("c1")
    /\ docs = {}

(***************************************************************************)
(* A tool that calls tools (SpecOverview).                                 *)
(***************************************************************************)
\* line i of the log was written for the outer tool
OuterLine(i) == log[i].tool = "generate_comprehensive_overview"

\* the outer tool's line is written by its own wrapper after its body has
\* returned with both calls made, it stands after every line of the calls the
\* body made, and no line of the log is ever taken away
OuterLineLastAndInnerLinesStay ==
    /\ [][/\ \A i \in DOMAIN log : i \in DOMAIN log' /\ log'[i] = log[i]
          /\ (Len(log') > Len(log) /\ log'[Len(log')].tool = "generate_comprehensive_overview")
                => /\ frame["c1"].pc = "log" /\ frame'["c1"].pc = "ret"
                   /\ ~frame["c1"].result.raised
                   /\ Len(inner.results) = 2
                   /\ frame["c2"].pc = "idle"]_vars
    /\ [](\A i, j \in DOMAIN log : OuterLine(i) /\ ~OuterLine(j) => j < i)
    /\ [](frame["c1"].pc \in {"func", "raised"} => \A i \in DOMAIN log : ~OuterLine(i))

WrittenBy(f, v, n) == Cardinality({i \in 1..n : written[i][f] = v})

\* C27: the summary of a file that only the wrapper wrote has the number of
\* its lines as total, and for every agent id and every tool name the number
\* of lines written by that agent and for that tool, and no other entry.
SummaryCountsWhatWasWritten ==
    summary.done =>
        LET n == Len(summary.read)
            out == summary.out
        IN /\ out.total = n
           /\ DOMAIN out.by_agent = {written[i].agent : i \in 1..n}
           /\ \A a \in DOMAIN out.by_agent : out.by_agent[a] = WrittenBy("agent", a, n)
           /\ DOMAIN out.by_tool = {written[i].tool : i \in 1..n}
           /\ \A t \in DOMAIN out.by_tool : out.by_tool[t] = WrittenBy("tool", t, n)

====
